---- MODULE Spec2Model ----
(***************************************************************************)
(* Release-tracking scheduler and deduplication engine of the GitHub /     *)
(* GitLab release notifier bot.  The repository holds three variants of    *)
(* the bot: bot.py (GitHub + GitLab, per-subscriber polling loop), main.py *)
(* (the GitHub-only predecessor of bot.py, same polling and dedup code)    *)
(* and telegram_bot.py (one scheduled job per repository, release ids).    *)
(* One deployment runs one variant: `variant` is chosen in Init and the   *)
(* actions of the other variants are disabled.  The three variants keep    *)
(* the same subscription store under different layouts; the model holds it *)
(* in one set of variables named after bot.py:                             *)
(*   repos[u]            bot_data.repos[u]        users[u]["repos"] keys   *)
(*   last_releases[u,r]  bot_data.last_releases   ...["last_release_id"]   *)
(*   check_intervals     bot_data.check_intervals ...["interval_hours"]    *)
(*   user_tokens         bot_data.user_tokens     users[u]["github_token"] *)
(***************************************************************************)
EXTENDS Integers, Sequences, FiniteSets, TLC

\* ------------------------------------------------------------------ bounds
NumTags == 2
MaxSent == 2
MaxTicks == 4

\* --------------------------------------------------------------- universe
Users == {"u1", "u2"}
\* iteration order of the dicts keyed by user id (insertion order)
UserOrder == <<"u1", "u2">>
Repos == {"r1"}
\* release identifiers: tag_name in bot.py / main.py, id in telegram_bot.py
Tags == 1..NumTags
\* Python None as a marker / release id (falsy, never a real identifier)
None == 0
\* context.bot_data.get(last_check_key) when the key is absent
Never == -1
\* check_intervals.get(key, 24): the default interval in hours
DefaultInterval == 24
\* one clock step in hours: the shortest interval the buttons offer
TickHours == 6
\* intervals offered by the interval buttons (a subset: 6 h and 24 h)
IntervalChoices == {6, 24}
Platforms == {"github", "gitlab"}
Keys == Users \X Repos
Cells == Users \X Repos \X Tags
Sites == Platforms \X Repos

VARIABLES
    variant,            \* "main" (main.py), "bot" (bot.py) or "telegram_bot"
    repos,              \* bot_data.repos: user -> list of repositories
    check_intervals,    \* bot_data.check_intervals: key -> hours, None if absent
    last_releases,      \* bot_data.last_releases: key -> tag, None if absent/null
    repo_types,         \* bot_data.repo_types: key -> platform, "none" if absent
    user_tokens,        \* users with a GitHub token
    user_gitlab_tokens, \* users with a GitLab token
    interval_repo,      \* context.user_data['interval_repo'] per user
    last_check,         \* context.bot_data[last_check_<key>]: hour, Never if absent
    now,                \* wall clock, hours
    scan,               \* check_all_repos: <<0,0>> sleeping, else <<user idx, repo idx>>
    fetches,            \* outbound latest-release fetches of the current pass of
                        \* check_all_repos, per <<platform, repository>>
    startup_jobs,       \* telegram_bot.py: the job main() made for a repository
                        \* -> hours, None if absent
    aps_jobs,           \* telegram_bot.py: job "check_<repo>" -> hours, None if absent
    sent,               \* release notifications handed to the sink, per cell
    delivered,          \* cells for which a send_message call returned normally
    outcome,            \* the kind of response the step just taken received,
                        \* "idle" when that step was not a poll
    removed,            \* the subscriptions that have been removed at least once
    held,               \* identifiers a subscription's marker has held since the
                        \* subscription was created
    writable,           \* whether the data file can be written
    disk,               \* the markers in the data file
    known,              \* the keys of the dict bot_data.repos
    scan_keys,          \* check_all_repos: the size of bot_data.repos when the
                        \* iterator of the pass was made
    inflight,           \* the fetches awaiting their response: the key polled
                        \* by check_all_repos and the key polled by the
                        \* handler of 'check_now', NoKey when there is none
    latest,             \* the hosting service: the latest release of a
                        \* repository, None while it has none
    settings,           \* bot.py / main.py: bot_public, special_users,
                        \* banned_users, required_channel, log_channel
    exported,           \* the last document made by export_data, with the
                        \* store as it was when the document was made
    awaiting,           \* bot.py / main.py: context.user_data['awaiting'] of a
                        \* user, "none" when the key is absent
    cancelled           \* whether the user pressed Cancel on an input prompt
                        \* and has opened no prompt since

botvars == <<repos, check_intervals, last_releases, repo_types, user_tokens,
             user_gitlab_tokens, interval_repo, last_check, scan>>
sinkvars == <<sent, delivered>>
histvars == <<outcome, held, removed>>
adminvars == <<settings, exported>>
dialogvars == <<awaiting, cancelled>>
jobvars == <<startup_jobs, aps_jobs>>
dictvars == <<known, scan_keys>>
envvars == <<variant, latest, inflight, dictvars, writable>>
vars == <<envvars, disk, botvars, now, fetches, jobvars, sinkvars, histvars,
          adminvars, dialogvars>>

NoKey == <<"none", "none">>

\* the task check_all_repos is not suspended inside check_repo_updates
ScanIdle == inflight.scan = NoKey

\* no handler is suspended inside check_repo_updates; updates are handled one
\* at a time
HandlerIdle == inflight.handler = NoKey

\* the variants that run the check_all_repos loop
Loop == variant \in {"main", "bot"}

\* ----------------------------------------------------------- the responses
\* One HTTP exchange with the hosting API.  kind "release": 200 with a release
\* object (tag None: the object carries no identifier); "empty": 200 with an
\* empty GitLab release list; "error": a non-200 status; "exception": the
\* request raised (network failure, timeout).
Responses ==
    {[status |-> 200, kind |-> "release", tag |-> t] : t \in Tags \cup {None}}
    \cup {[status |-> 200, kind |-> "empty", tag |-> None]}
    \cup {[status |-> s, kind |-> "error", tag |-> None] : s \in {404, 401, 403, 500}}
    \cup {[status |-> 0, kind |-> "exception", tag |-> None]}

\* what /releases/latest (GitLab: /releases) of repository r answers on
\* platform p while the service is up
Answer(p, r) ==
    IF latest[r] # None THEN [status |-> 200, kind |-> "release", tag |-> latest[r]]
    ELSE IF p = "github" THEN [status |-> 404, kind |-> "error", tag |-> None]
    ELSE [status |-> 200, kind |-> "empty", tag |-> None]

\* a poll outcome that carries a release identifier R
Found(resp) == resp.kind = "release" /\ resp.tag # None

Range(s) == {s[i] : i \in 1..Len(s)}

RECURSIVE SumSent(_, _)
SumSent(f, S) ==
    IF S = {} THEN 0
    ELSE LET c == CHOOSE x \in S : TRUE IN f[c] + SumSent(f, S \ {c})

\* the bound on the notification counters
SentRoom == SumSent(sent, Cells) < MaxSent

\* the history variables after a step: kind is what the step received, reset
\* the subscriptions it removed
Track(kind, reset) ==
    /\ outcome' = kind
    /\ removed' = removed \cup reset
    /\ held' = [k \in Keys |->
                  IF k \in reset THEN {}
                  ELSE held[k] \cup ({last_releases'[k]} \ {None})]

\* BotData.save_data: the store is written to the data file; a failure of the
\* write is logged and swallowed
save_data == disk' = IF writable THEN last_releases' ELSE disk

NoFetches == [x \in Sites |-> 0]

\* ------------------------------------------------- bot.py / main.py: store
\* repository r is in the list of user u
Tracks(u, r) == r \in Range(repos[u])

RepoType(k) == IF repo_types[k] = "none" THEN "github" ELSE repo_types[k]

\* the token test left out: every subscriber counts as credentialled
NoTokenTest(u, r) == TRUE

\* `if user_id not in bot_data.user_tokens: return` (GitLab alike)
HasToken(u, r) ==
    IF RepoType(<<u, r>>) = "github" THEN u \in user_tokens
    ELSE u \in user_gitlab_tokens

\* responses the platform of key k can produce
ResponsesFor(k) ==
    IF RepoType(k) = "github" THEN {x \in Responses : x.kind # "empty"}
    ELSE Responses

\* ------------------------------------- bot.py / main.py: check_repo_updates
\* the status test left out: whatever body arrives is read as a release
GotReleaseUnchecked(resp) == resp.kind # "exception"

\* `if response.status == 200:` (GitLab: and `if releases:`)
GotRelease(resp) == resp.status = 200 /\ resp.kind = "release"

\* `if force or last_release != release_tag:`
UpdatesMarker(force, last_release, release_tag) ==
    force \/ last_release # release_tag

\* the `not` left out of the test
NotifiesForced(force, last_release) == force /\ last_release # None

\* `if not force and last_release:`
Notifies(force, last_release) == ~force /\ last_release # None

\* whether check_repo_updates(u, r, force) writes the marker on `resp`
Writes(u, r, force, resp) ==
    /\ HasToken(u, r)
    /\ GotRelease(resp)
    /\ UpdatesMarker(force, last_releases[<<u, r>>], resp.tag)

\* whether it goes on to send the notification
Sends(u, r, force, resp) ==
    Writes(u, r, force, resp) /\ Notifies(force, last_releases[<<u, r>>])

\* the marker after check_repo_updates(u, r, force) received `resp`
MarkerAfter(u, r, force, resp) ==
    IF Writes(u, r, force, resp) THEN resp.tag ELSE last_releases[<<u, r>>]

\* the notification counters after check_repo_updates ran for the repositories
\* in rs of user u, with responses resps[r] and sink outcomes ok[r]
SentAfter(u, rs, force, resps) ==
    [c \in Cells |->
        IF c[1] = u /\ c[2] \in rs /\ Sends(u, c[2], force, resps[c[2]])
           /\ resps[c[2]].tag = c[3]
        THEN sent[c] + 1 ELSE sent[c]]

DeliveredAfter(u, rs, force, resps, ok) ==
    delivered \cup
        {c \in Cells : c[1] = u /\ c[2] \in rs /\ Sends(u, c[2], force, resps[c[2]])
                       /\ resps[c[2]].tag = c[3] /\ ok[c[2]]}

\* check_repo_updates for every repository in rs of user u
check_repo_updates(u, rs, force, resps, ok) ==
    /\ last_releases' =
          [k \in Keys |->
              IF k[1] = u /\ k[2] \in rs
              THEN MarkerAfter(u, k[2], force, resps[k[2]])
              ELSE last_releases[k]]
    /\ sent' = SentAfter(u, rs, force, resps)
    /\ delivered' = DeliveredAfter(u, rs, force, resps, ok)

\* ------------------------------------------ bot.py / main.py: check_all_repos
\* the stored interval left out of the due test
NoInterval(k) == 0

\* `interval = bot_data.check_intervals.get(key, 24)`
Interval(k) ==
    IF check_intervals[k] = None THEN DefaultInterval ELSE check_intervals[k]

\* the due test with `>` for `>=`
DueLate(k) == last_check[k] = Never \/ now - last_check[k] > Interval(k)

\* `if last_check is None or (now - last_check) >= timedelta(hours=interval):`
Due(k) == last_check[k] = Never \/ now - last_check[k] >= Interval(k)

\* the scan sleeps between passes
Sleeping == scan = <<0, 0>>

RECURSIVE NextPos(_, _)
\* the first position at or after <<ui, ri>> that holds a repository, or
\* <<0, 0>> when the nested for loops are exhausted
NextPos(ui, ri) ==
    IF ui > Len(UserOrder) THEN <<0, 0>>
    ELSE IF ri <= Len(repos[UserOrder[ui]]) THEN <<ui, ri>>
    ELSE NextPos(ui + 1, 1)

\* the iterator of `bot_data.repos.items()` is asked for its next item after
\* a handler has inserted a key: RuntimeError, dictionary changed size
ScanRaises ==
    /\ NextPos(scan[1], scan[2])[1] # scan[1]
    /\ Cardinality(known) # scan_keys

\* the pass begins: `for user_id, repos in bot_data.repos.items():`
ScanStart ==
    /\ Loop
    /\ Sleeping
    /\ NextPos(1, 1) # <<0, 0>>
    /\ scan' = <<1, 1>>
    /\ scan_keys' = Cardinality(known)
    /\ fetches' = NoFetches
    /\ UNCHANGED <<variant, latest, writable, inflight, known, repos, check_intervals, last_releases, repo_types,
                   user_tokens, user_gitlab_tokens, interval_repo, last_check,
                   now, jobvars, sinkvars>>
    /\ UNCHANGED disk
    /\ UNCHANGED <<adminvars, dialogvars>>
    /\ Track("idle", {})

\* one iteration of the inner loop: the due test, the poll, the timestamp
ScanVisit(resp, ok) ==
    /\ Loop
    /\ ScanIdle
    /\ ~Sleeping
    /\ ~ScanRaises
    /\ NextPos(scan[1], scan[2]) # <<0, 0>>
    /\ SentRoom
    /\ UNCHANGED <<envvars, repos, check_intervals, repo_types, user_tokens,
                   user_gitlab_tokens, interval_repo, now, jobvars>>
    /\ LET p == NextPos(scan[1], scan[2])
           u == UserOrder[p[1]]
           r == repos[u][p[2]]
       IN /\ scan' = <<p[1], p[2] + 1>>
          /\ IF Due(<<u, r>>)
             THEN /\ resp \in ResponsesFor(<<u, r>>)
                  /\ check_repo_updates(u, {r}, FALSE,
                                        [x \in Repos |-> resp],
                                        [x \in Repos |-> ok])
                  /\ fetches' = [fetches EXCEPT ![<<RepoType(<<u, r>>), r>>] =
                                    IF HasToken(u, r) THEN @ + 1 ELSE @]
                  /\ last_check' = [last_check EXCEPT ![<<u, r>>] = now]
             ELSE UNCHANGED <<last_releases, sent, delivered, fetches, last_check>>
          /\ IF Due(<<u, r>>) /\ Writes(u, r, FALSE, resp) THEN save_data ELSE UNCHANGED disk
          /\ UNCHANGED <<adminvars, dialogvars>>
          /\ Track(IF Due(<<u, r>>) /\ HasToken(u, r) THEN resp.kind ELSE "idle", {})

\* the loops are exhausted: `await asyncio.sleep(300)`
ScanEnd ==
    /\ Loop
    /\ ScanIdle
    /\ ~Sleeping
    /\ ~ScanRaises
    /\ NextPos(scan[1], scan[2]) = <<0, 0>>
    /\ scan' = <<0, 0>>
    /\ scan_keys' = 0
    /\ fetches' = NoFetches
    /\ UNCHANGED <<variant, latest, writable, inflight, known, repos, check_intervals, last_releases, repo_types,
                   user_tokens, user_gitlab_tokens, interval_repo, last_check,
                   now, jobvars, sinkvars>>
    /\ UNCHANGED disk
    /\ UNCHANGED <<adminvars, dialogvars>>
    /\ Track("idle", {})

\* the subscription the scan visits next
ScanKey ==
    LET p == NextPos(scan[1], scan[2])
    IN <<UserOrder[p[1]], repos[UserOrder[p[1]]][p[2]]>>

\* one iteration of the inner loop, the hosting service up and the sink
\* accepting the message
ScanAnswered ==
    /\ Loop
    /\ ~Sleeping
    /\ ~ScanRaises
    /\ NextPos(scan[1], scan[2]) # <<0, 0>>
    /\ ScanVisit(Answer(RepoType(ScanKey), ScanKey[2]), TRUE)

\* `except Exception as e:` of check_all_repos: the RuntimeError ends the pass,
\* the loop sleeps and starts over
ScanAbort ==
    /\ Loop
    /\ ScanIdle
    /\ ~Sleeping
    /\ ScanRaises
    /\ scan' = <<0, 0>>
    /\ scan_keys' = 0
    /\ fetches' = NoFetches
    /\ UNCHANGED <<variant, latest, writable, inflight, known, repos, check_intervals, last_releases, repo_types,
                   user_tokens, user_gitlab_tokens, interval_repo, last_check,
                   now, jobvars, sinkvars>>
    /\ UNCHANGED disk
    /\ UNCHANGED <<adminvars, dialogvars>>
    /\ Track("idle", {})

\* an iteration of the inner loop that makes no request: the subscription is
\* not due, or its user holds no token for the platform
ScanSkip ==
    /\ Loop
    /\ ScanIdle
    /\ ~Sleeping
    /\ ~ScanRaises
    /\ NextPos(scan[1], scan[2]) # <<0, 0>>
    /\ ~(Due(ScanKey) /\ HasToken(ScanKey[1], ScanKey[2]))
    /\ ScanVisit(Answer(RepoType(ScanKey), ScanKey[2]), TRUE)

\* an iteration of the inner loop up to `async with session.get(...)`: the
\* request is sent and the task is suspended
ScanRequest ==
    /\ Loop
    /\ ScanIdle
    /\ ~Sleeping
    /\ ~ScanRaises
    /\ NextPos(scan[1], scan[2]) # <<0, 0>>
    /\ Due(ScanKey)
    /\ HasToken(ScanKey[1], ScanKey[2])
    /\ inflight' = [inflight EXCEPT !.scan = ScanKey]
    /\ scan' = NextPos(scan[1], scan[2])
    /\ fetches' = [fetches EXCEPT ![<<RepoType(ScanKey), ScanKey[2]>>] = @ + 1]
    /\ UNCHANGED <<variant, latest, writable, dictvars, repos, check_intervals, last_releases,
                   repo_types, user_tokens, user_gitlab_tokens, interval_repo,
                   last_check, now, jobvars, sinkvars>>
    /\ UNCHANGED disk
    /\ UNCHANGED <<adminvars, dialogvars>>
    /\ Track("idle", {})

\* the response arrives: the rest of check_repo_updates, then the timestamp
ScanResponse(resp, ok) ==
    /\ Loop
    /\ ~ScanIdle
    /\ SentRoom
    /\ resp \in ResponsesFor(inflight.scan)
    /\ UNCHANGED <<variant, latest, writable, dictvars, repos, check_intervals, repo_types,
                   user_tokens, user_gitlab_tokens, interval_repo, now, fetches,
                   jobvars>>
    /\ check_repo_updates(inflight.scan[1], {inflight.scan[2]}, FALSE,
                          [x \in Repos |-> resp], [x \in Repos |-> ok])
    /\ last_check' = [last_check EXCEPT ![inflight.scan] = now]
    /\ scan' = <<scan[1], scan[2] + 1>>
    /\ inflight' = [inflight EXCEPT !.scan = NoKey]
    /\ IF Writes(inflight.scan[1], inflight.scan[2], FALSE, resp) THEN save_data ELSE UNCHANGED disk
    /\ UNCHANGED <<adminvars, dialogvars>>
    /\ Track(resp.kind, {})

\* ------------------------------------------- bot.py / main.py: export, import
\* no channel is set (Python None in place of a channel name)
NoChannel == "none"
Channels == {"@channel"}

\* BotData.__init__: the access lists and settings of a new store
DefaultSettings ==
    [bot_public |-> TRUE, special_users |-> {}, banned_users |-> {},
     required_channel |-> NoChannel, log_channel |-> NoChannel]

\* telegram_bot.py, load_data without a data file: the new structure
DefaultData ==
    [is_public |-> FALSE, special_users |-> <<>>, banned_users |-> <<>>]

\* a document whose lists are written empty
NoList(S) == <<>>

RECURSIVE ListOf(_)
\* `list(self.special_users)`: the members of the set in some order
ListOf(S) ==
    IF S = {} THEN <<>>
    ELSE LET x == CHOOSE y \in S : TRUE IN <<x>> \o ListOf(S \ {x})

\* the store of BotData, the fields that save_data and export_data write
Store ==
    [repos |-> repos, known |-> known, user_tokens |-> user_tokens,
     user_gitlab_tokens |-> user_gitlab_tokens,
     check_intervals |-> check_intervals, last_releases |-> last_releases,
     repo_types |-> repo_types, settings |-> settings]

\* BotData.export_data: the JSON document; the sets become lists
export_data ==
    [repos |-> repos, known |-> known, user_tokens |-> user_tokens,
     user_gitlab_tokens |-> user_gitlab_tokens,
     check_intervals |-> check_intervals, last_releases |-> last_releases,
     bot_public |-> settings.bot_public,
     special_users |-> ListOf(settings.special_users),
     banned_users |-> ListOf(settings.banned_users),
     repo_types |-> repo_types,
     required_channel |-> settings.required_channel,
     log_channel |-> settings.log_channel,
     export_date |-> now]

\* ------------------------------------------- bot.py / main.py: the handlers
\* 'check_now' up to the request for the user's repository
CheckNowRequest(u) ==
    /\ Loop
    /\ HandlerIdle
    /\ Len(repos[u]) = 1
    /\ HasToken(u, repos[u][1])
    /\ inflight' = [inflight EXCEPT !.handler = <<u, repos[u][1]>>]
    /\ UNCHANGED <<variant, latest, writable, dictvars, botvars, now, fetches, jobvars, sinkvars>>
    /\ UNCHANGED disk
    /\ UNCHANGED <<adminvars, dialogvars>>
    /\ Track("idle", {})

\* the response to the request of 'check_now' arrives
CheckNowResponse(resp, ok) ==
    /\ Loop
    /\ ~HandlerIdle
    /\ SentRoom
    /\ resp \in ResponsesFor(inflight.handler)
    /\ UNCHANGED <<variant, latest, writable, dictvars, repos, check_intervals, repo_types,
                   user_tokens, user_gitlab_tokens, interval_repo, last_check,
                   scan, now, fetches, jobvars>>
    /\ check_repo_updates(inflight.handler[1], {inflight.handler[2]}, TRUE,
                          [x \in Repos |-> resp], [x \in Repos |-> ok])
    /\ inflight' = [inflight EXCEPT !.handler = NoKey]
    /\ IF Writes(inflight.handler[1], inflight.handler[2], TRUE, resp) THEN save_data ELSE UNCHANGED disk
    /\ UNCHANGED <<adminvars, dialogvars>>
    /\ Track(resp.kind, {})

\* button_callback, query.data == 'check_now'
CheckNow(u, resps, ok) ==
    /\ Loop
    /\ HandlerIdle
    /\ repos[u] # <<>>
    /\ u \in user_tokens \/ u \in user_gitlab_tokens
    /\ SentRoom
    /\ UNCHANGED <<envvars, repos, check_intervals, repo_types, user_tokens,
                   user_gitlab_tokens, interval_repo, last_check, scan, now,
                   fetches, jobvars>>
    /\ \A r \in Range(repos[u]) : resps[r] \in ResponsesFor(<<u, r>>)
    /\ check_repo_updates(u, Range(repos[u]), TRUE, resps, ok)
    /\ IF \E r \in Range(repos[u]) : Writes(u, r, TRUE, resps[r]) THEN save_data ELSE UNCHANGED disk
    /\ UNCHANGED <<adminvars, dialogvars>>
    /\ Track(IF HasToken(u, repos[u][1]) THEN resps[repos[u][1]].kind ELSE "idle", {})

\* the membership test left out
NeverAdded(u, r) == FALSE

\* `if repo in bot_data.repos[user_id]:`
AlreadyAdded(u, r) == r \in Range(repos[u])

\* handle_message, awaiting == 'github_repo' / 'gitlab_repo' (main.py: 'repo')
AddRepo(u, r, platform) ==
    /\ Loop
    /\ HandlerIdle
    /\ variant = "main" => platform = "github"
    /\ ~AlreadyAdded(u, r)
    /\ repos' = [repos EXCEPT ![u] = Append(@, r)]
    /\ check_intervals' = [check_intervals EXCEPT ![<<u, r>>] = DefaultInterval]
    /\ repo_types' = [repo_types EXCEPT ![<<u, r>>] = platform]
    /\ known' = known \cup {u}
    /\ UNCHANGED <<variant, latest, writable, inflight, scan_keys, last_releases, user_tokens, user_gitlab_tokens,
                   interval_repo, last_check, scan, now, fetches, jobvars, sinkvars>>
    /\ save_data
    /\ UNCHANGED <<adminvars, dialogvars>>
    /\ Track("idle", {})

\* handle_message, awaiting == 'repo' / 'github_repo' / 'gitlab_repo', the text
\* well-formed: `if repo in bot_data.repos[user_id]:` answers "Repository
\* already added." and returns
handle_message_repo(u, r, platform) ==
    IF AlreadyAdded(u, r)
    THEN /\ Loop
         /\ HandlerIdle
         /\ variant = "main" => platform = "github"
         /\ UNCHANGED <<envvars, disk, botvars, now, fetches, jobvars, sinkvars>>
         /\ UNCHANGED <<adminvars, dialogvars>>
         /\ Track("rejected", {})
    ELSE AddRepo(u, r, platform)

Remove(s, r) == SelectSeq(s, LAMBDA x : x # r)

\* button_callback, query.data.startswith('delete_')
DeleteRepo(u, r) ==
    /\ Loop
    /\ HandlerIdle
    /\ r \in Range(repos[u])
    /\ repos' = [repos EXCEPT ![u] = Remove(@, r)]
    /\ check_intervals' = [check_intervals EXCEPT ![<<u, r>>] = None]
    /\ last_releases' = [last_releases EXCEPT ![<<u, r>>] = None]
    /\ repo_types' = [repo_types EXCEPT ![<<u, r>>] = "none"]
    /\ UNCHANGED <<envvars, user_tokens, user_gitlab_tokens, interval_repo,
                   last_check, scan, now, fetches, jobvars, sinkvars>>
    /\ save_data
    /\ UNCHANGED <<adminvars, dialogvars>>
    /\ Track("idle", {<<u, r>>})

\* button_callback, query.data.startswith('interval_select_')
IntervalSelect(u, r) ==
    /\ Loop
    /\ HandlerIdle
    /\ r \in Range(repos[u])
    /\ interval_repo[u] # r
    /\ interval_repo' = [interval_repo EXCEPT ![u] = r]
    /\ UNCHANGED <<envvars, repos, check_intervals, last_releases, repo_types,
                   user_tokens, user_gitlab_tokens, last_check, scan, now,
                   fetches, jobvars, sinkvars>>
    /\ UNCHANGED disk
    /\ UNCHANGED <<adminvars, dialogvars>>
    /\ Track("idle", {})

\* button_callback, query.data.startswith('interval_')
SetInterval(u, hours) ==
    /\ Loop
    /\ HandlerIdle
    /\ interval_repo[u] # "none"
    /\ check_intervals' = [check_intervals EXCEPT ![<<u, interval_repo[u]>>] = hours]
    /\ UNCHANGED <<envvars, repos, last_releases, repo_types, user_tokens,
                   user_gitlab_tokens, interval_repo, last_check, scan, now,
                   fetches, jobvars, sinkvars>>
    /\ save_data
    /\ UNCHANGED <<adminvars, dialogvars>>
    /\ Track("idle", {})

\* the documents the owner sends to 'import_data': every user holds both
\* tokens; the subscriptions in `tracked` are of GitHub repositories, those in
\* `marked` carry the marker 1; the access lists are empty and the settings
\* those of a new BotData
Documents ==
    {d \in [tracked : SUBSET Keys, marked : SUBSET Keys] : d.marked \subseteq d.tracked}

\* handle_message, awaiting == 'import_data': BotData.import_data(data_str);
\* the document replaces the store while check_all_repos sleeps
import_data(d) ==
    /\ Loop
    /\ HandlerIdle
    /\ Sleeping
    /\ repos' = [u \in Users |->
                    SelectSeq(<<"r1">>, LAMBDA r : <<u, r>> \in d.tracked)]
    /\ known' = {k[1] : k \in d.tracked}
    /\ check_intervals' =
          [k \in Keys |-> IF k \in d.tracked THEN DefaultInterval ELSE None]
    /\ last_releases' = [k \in Keys |-> IF k \in d.marked THEN 1 ELSE None]
    /\ repo_types' = [k \in Keys |-> IF k \in d.tracked THEN "github" ELSE "none"]
    /\ user_tokens' = Users
    /\ user_gitlab_tokens' = Users
    /\ UNCHANGED <<variant, latest, writable, inflight, scan_keys, interval_repo,
                   last_check, scan, now, fetches, jobvars, sinkvars>>
    /\ save_data
    /\ settings' = DefaultSettings
    /\ UNCHANGED <<exported, dialogvars>>
    /\ outcome' = "idle"
    /\ removed' = removed \cup {k \in Keys \ d.tracked : Tracks(k[1], k[2])}
    /\ held' = [k \in Keys |-> {last_releases'[k]} \ {None}]

\* handle_message, awaiting == 'import_data', BotData.import_data returning
\* False. The text is no JSON (parses = FALSE): json.loads raises before any
\* assignment. Or the text is the JSON of document d with "special_users" a
\* number: the fields before it are assigned, `set(5)` raises, save_data is
\* not reached
import_data_fails(d, parses) ==
    /\ Loop
    /\ HandlerIdle
    /\ Sleeping
    /\ IF parses
       THEN /\ repos' = [u \in Users |->
                           SelectSeq(<<"r1">>, LAMBDA r : <<u, r>> \in d.tracked)]
            /\ known' = {k[1] : k \in d.tracked}
            /\ check_intervals' =
                  [k \in Keys |-> IF k \in d.tracked THEN DefaultInterval ELSE None]
            /\ last_releases' = [k \in Keys |-> IF k \in d.marked THEN 1 ELSE None]
            /\ user_tokens' = Users
            /\ user_gitlab_tokens' = IF variant = "bot" THEN Users
                                     ELSE user_gitlab_tokens
            /\ settings' = [settings EXCEPT !.bot_public = TRUE]
       ELSE UNCHANGED <<repos, known, check_intervals, last_releases, user_tokens,
                        user_gitlab_tokens, settings>>
    /\ UNCHANGED <<variant, latest, writable, inflight, scan_keys, interval_repo,
                   last_check, scan, now, fetches, jobvars, sinkvars, repo_types,
                   exported, dialogvars>>
    /\ UNCHANGED disk
    /\ outcome' = "import_failed"
    /\ removed' = removed \cup {k \in Keys : Tracks(k[1], k[2])
                                              /\ k[2] \notin Range(repos'[k[1]])}
    /\ held' = [k \in Keys |-> IF last_releases'[k] = last_releases[k] THEN held[k]
                                ELSE {last_releases'[k]} \ {None}]

\* button_callback, query.data == 'download_data': the owner receives the
\* document of export_data
download_data ==
    /\ Loop
    /\ HandlerIdle
    /\ exported' = [made |-> TRUE, document |-> export_data, at |-> Store]
    /\ UNCHANGED <<envvars, botvars, now, fetches, jobvars, sinkvars, settings,
                   dialogvars>>
    /\ UNCHANGED disk
    /\ outcome' = "idle"
    /\ UNCHANGED <<held, removed>>

\* handle_message, awaiting == 'import_data', the document the one received
\* from 'download_data': BotData.import_data(data_str) while check_all_repos
\* sleeps; `set(data.get('special_users', []))` makes the lists sets again
import_exported ==
    /\ Loop
    /\ HandlerIdle
    /\ Sleeping
    /\ exported.made
    /\ LET data == exported.document
       IN /\ repos' = data.repos
          /\ known' = data.known
          /\ user_tokens' = data.user_tokens
          /\ user_gitlab_tokens' = data.user_gitlab_tokens
          /\ check_intervals' = data.check_intervals
          /\ last_releases' = data.last_releases
          /\ repo_types' = data.repo_types
          /\ settings' =
                [bot_public |-> data.bot_public,
                 special_users |-> Range(data.special_users),
                 banned_users |-> Range(data.banned_users),
                 required_channel |-> data.required_channel,
                 log_channel |-> data.log_channel]
    /\ UNCHANGED <<variant, latest, writable, inflight, scan_keys, interval_repo,
                   last_check, scan, now, fetches, jobvars, sinkvars, exported,
                   dialogvars>>
    /\ save_data
    /\ outcome' = "imported"
    /\ removed' = removed \cup {k \in Keys : Tracks(k[1], k[2])
                                              /\ k[2] \notin Range(repos'[k[1]])}
    /\ held' = [k \in Keys |-> {last_releases'[k]} \ {None}]

\* button_callback, query.data == 'toggle_public'
toggle_public ==
    /\ Loop
    /\ HandlerIdle
    /\ settings' = [settings EXCEPT !.bot_public = ~@]
    /\ UNCHANGED <<envvars, botvars, now, fetches, jobvars, sinkvars, exported,
                   dialogvars>>
    /\ save_data
    /\ Track("idle", {})

\* handle_message, awaiting == 'ban_user'
ban_user(u) ==
    /\ Loop
    /\ HandlerIdle
    /\ settings' = [settings EXCEPT !.banned_users = @ \cup {u}]
    /\ UNCHANGED <<envvars, botvars, now, fetches, jobvars, sinkvars, exported,
                   dialogvars>>
    /\ save_data
    /\ Track("idle", {})

\* handle_message, awaiting == 'unban_user'
unban_user(u) ==
    /\ Loop
    /\ HandlerIdle
    /\ settings' = [settings EXCEPT !.banned_users = @ \ {u}]
    /\ UNCHANGED <<envvars, botvars, now, fetches, jobvars, sinkvars, exported,
                   dialogvars>>
    /\ save_data
    /\ Track("idle", {})

\* handle_message, awaiting == 'required_channel', and button_callback,
\* query.data == 'remove_required_channel' (channel = NoChannel)
required_channel(channel) ==
    /\ Loop
    /\ HandlerIdle
    /\ settings' = [settings EXCEPT !.required_channel = channel]
    /\ UNCHANGED <<envvars, botvars, now, fetches, jobvars, sinkvars, exported,
                   dialogvars>>
    /\ save_data
    /\ Track("idle", {})

\* handle_message, awaiting == 'github_token' / 'gitlab_token'
SetToken(u, platform) ==
    /\ Loop
    /\ HandlerIdle
    /\ variant = "main" => platform = "github"
    /\ IF platform = "github"
       THEN /\ u \notin user_tokens
            /\ user_tokens' = user_tokens \cup {u}
            /\ UNCHANGED user_gitlab_tokens
       ELSE /\ u \notin user_gitlab_tokens
            /\ user_gitlab_tokens' = user_gitlab_tokens \cup {u}
            /\ UNCHANGED user_tokens
    /\ UNCHANGED <<envvars, repos, check_intervals, last_releases, repo_types,
                   interval_repo, last_check, scan, now, fetches, jobvars, sinkvars>>
    /\ save_data
    /\ UNCHANGED <<adminvars, dialogvars>>
    /\ Track("idle", {})

\* ------------------------------------------ telegram_bot.py: the release check
\* get_a_valid_token_for_repo(repo_name) is not None
TokenFor(r) == \E u \in Users : Tracks(u, r) /\ u \in user_tokens

RECURSIVE FirstTrackerFrom(_, _)
\* the first user, in the order of bot_data["users"], whose repos hold r
FirstTrackerFrom(i, r) ==
    IF i > Len(UserOrder) THEN "nobody"
    ELSE IF Tracks(UserOrder[i], r) THEN UserOrder[i]
    ELSE FirstTrackerFrom(i + 1, r)

\* global_repo_info.get("last_release_id")
GlobalMarker(r) == last_releases[<<FirstTrackerFrom(1, r), r>>]

\* the comparison with the known release left out
AnyRelease(release_id, last_known_id) == release_id # None

\* `if release_id and release_id != last_known_id:`
IsNew(release_id, last_known_id) ==
    release_id # None /\ release_id # last_known_id

\* check_releases notifies every tracker of r and rewrites their markers
FansOut(r, resp) ==
    /\ TokenFor(r)
    /\ resp.status = 200
    /\ resp.kind = "release"
    /\ IsNew(resp.tag, GlobalMarker(r))

\* the job made by main() for repository r fires. Only these jobs run the
\* function: run_repeating calls check_releases(context) with job.data, while
\* schedule_repo_check registers it with kwargs={"repo_name": ...} and no
\* context, a call that `async def check_releases(context)` cannot take.
\* Without a token of some tracker the run returns at `if not token` (outcome
\* "no_token"); the branch `if not global_repo_info` that calls
\* schedule_removal lies behind that return and needs a repository with a
\* token of a tracker and no tracker, so the jobs stay as they are
check_releases(r, resp, ok) ==
    /\ variant = "telegram_bot"
    /\ startup_jobs[r] # None
    /\ resp.kind # "empty"
    /\ SentRoom
    /\ UNCHANGED <<envvars, repos, check_intervals, repo_types, user_tokens,
                   user_gitlab_tokens, interval_repo, last_check, scan, now,
                   fetches, jobvars>>
    /\ IF FansOut(r, resp)
       THEN /\ last_releases' =
                  [k \in Keys |->
                      IF k[2] = r /\ Tracks(k[1], r) THEN resp.tag
                      ELSE last_releases[k]]
            /\ sent' =
                  [c \in Cells |->
                      IF c[2] = r /\ Tracks(c[1], r) /\ c[3] = resp.tag
                      THEN sent[c] + 1 ELSE sent[c]]
            /\ delivered' = delivered \cup
                  {c \in Cells : c[2] = r /\ Tracks(c[1], r) /\ c[3] = resp.tag
                                 /\ ok[c[1]]}
       ELSE UNCHANGED <<last_releases, sent, delivered>>
    /\ IF FansOut(r, resp) THEN save_data ELSE UNCHANGED disk
    /\ UNCHANGED <<adminvars, dialogvars>>
    /\ Track(IF TokenFor(r) THEN resp.kind ELSE "no_token", {})

RECURSIVE VisitedFrom(_, _, _)
\* the repositories the loop of check_now_user reaches: a 401 ends the handler
VisitedFrom(rs, i, resps) ==
    IF i > Len(rs) THEN {}
    ELSE IF resps[rs[i]].status = 401 THEN {}
    ELSE {rs[i]} \cup VisitedFrom(rs, i + 1, resps)

\* check_now_user finds a release to report for repository r of user u
ReportsNow(u, r, resps) ==
    /\ r \in VisitedFrom(repos[u], 1, resps)
    /\ resps[r].status = 200
    /\ resps[r].kind = "release"
    /\ IsNew(resps[r].tag, last_releases[<<u, r>>])

\* callback "check_now_user"
check_now_user(u, resps, ok) ==
    /\ variant = "telegram_bot"
    /\ u \in user_tokens
    /\ repos[u] # <<>>
    /\ \A r \in Repos : resps[r].kind # "empty"
    /\ SentRoom
    /\ UNCHANGED <<envvars, repos, check_intervals, repo_types, user_tokens,
                   user_gitlab_tokens, interval_repo, last_check, scan, now,
                   fetches, jobvars>>
    /\ last_releases' =
          [k \in Keys |->
              IF k[1] = u /\ ReportsNow(u, k[2], resps) THEN resps[k[2]].tag
              ELSE last_releases[k]]
    /\ sent' =
          [c \in Cells |->
              IF c[1] = u /\ ReportsNow(u, c[2], resps) /\ resps[c[2]].tag = c[3]
              THEN sent[c] + 1 ELSE sent[c]]
    /\ delivered' = delivered \cup
          {c \in Cells : c[1] = u /\ ReportsNow(u, c[2], resps)
                         /\ resps[c[2]].tag = c[3] /\ ok[c[2]]}
    /\ IF \A r \in Range(repos[u]) : resps[r].status # 401 THEN save_data ELSE UNCHANGED disk
    /\ UNCHANGED <<adminvars, dialogvars>>
    /\ Track(resps[repos[u][1]].kind, {})

\* ------------------------------------------- telegram_bot.py: the handlers
\* schedule_repo_check: the job "check_<repo>" rescheduled or added
schedule_repo_check(r, interval_hours) ==
    aps_jobs' = [aps_jobs EXCEPT ![r] = interval_hours]

\* add_repo, the repository validated; resp answers /releases/latest
add_repo(u, r, resp) ==
    /\ variant = "telegram_bot"
    /\ u \in user_tokens
    /\ ~Tracks(u, r)
    /\ resp.kind # "empty"
    /\ repos' = [repos EXCEPT ![u] = Append(@, r)]
    /\ check_intervals' = [check_intervals EXCEPT ![<<u, r>>] = DefaultInterval]
    /\ last_releases' = [last_releases EXCEPT ![<<u, r>>] =
                            IF resp.status = 200 THEN resp.tag ELSE None]
    /\ schedule_repo_check(r, DefaultInterval)
    /\ save_data
    /\ UNCHANGED <<adminvars, dialogvars>>
    /\ Track("idle", {})
    /\ UNCHANGED <<envvars, repo_types, user_tokens, user_gitlab_tokens,
                   interval_repo, last_check, scan, now, fetches, startup_jobs,
                   sinkvars>>

\* add_repo on a text message with a well-formed URL: `if repo_name in
\* user_data["repos"]:` answers "You are already tracking" and ends
add_repo_text(u, r, resp) ==
    IF Tracks(u, r)
    THEN /\ variant = "telegram_bot"
         /\ UNCHANGED <<envvars, disk, botvars, now, fetches, jobvars, sinkvars>>
         /\ UNCHANGED <<adminvars, dialogvars>>
         /\ Track("rejected", {})
    ELSE add_repo(u, r, resp)

\* handle_delete_repo, then unschedule_if_unused
handle_delete_repo(u, r) ==
    /\ variant = "telegram_bot"
    /\ Tracks(u, r)
    /\ repos' = [repos EXCEPT ![u] = Remove(@, r)]
    /\ check_intervals' = [check_intervals EXCEPT ![<<u, r>>] = None]
    /\ last_releases' = [last_releases EXCEPT ![<<u, r>>] = None]
    /\ aps_jobs' = [aps_jobs EXCEPT ![r] =
                       IF \E v \in Users \ {u} : Tracks(v, r) THEN @ ELSE None]
    /\ save_data
    /\ UNCHANGED <<adminvars, dialogvars>>
    /\ Track("idle", {<<u, r>>})
    /\ UNCHANGED <<envvars, repo_types, user_tokens, user_gitlab_tokens,
                   interval_repo, last_check, scan, now, fetches, startup_jobs,
                   sinkvars>>

\* set_github_token, the token verified
set_github_token(u) ==
    /\ variant = "telegram_bot"
    /\ u \notin user_tokens
    /\ user_tokens' = user_tokens \cup {u}
    /\ UNCHANGED <<envvars, repos, check_intervals, last_releases, repo_types,
                   user_gitlab_tokens, interval_repo, last_check, scan, now,
                   fetches, jobvars, sinkvars>>
    /\ save_data
    /\ UNCHANGED <<adminvars, dialogvars>>
    /\ Track("idle", {})

\* prompt_interval_hours: the button "set_interval_<repo>" of the keyboard
\* prompt_set_interval built from the user's repositories
prompt_interval_hours(u, r) ==
    /\ variant = "telegram_bot"
    /\ Tracks(u, r)
    /\ interval_repo[u] # r
    /\ interval_repo' = [interval_repo EXCEPT ![u] = r]
    /\ UNCHANGED <<envvars, repos, check_intervals, last_releases, repo_types,
                   user_tokens, user_gitlab_tokens, last_check, scan, now,
                   fetches, jobvars, sinkvars>>
    /\ UNCHANGED disk
    /\ UNCHANGED <<adminvars, dialogvars>>
    /\ Track("idle", {})

\* set_interval, the text a valid number of hours
set_interval(u, hours) ==
    /\ variant = "telegram_bot"
    /\ interval_repo[u] # "none"
    /\ LET repo_name == interval_repo[u]
       IN IF Tracks(u, repo_name)
          THEN /\ check_intervals' =
                     [k \in Keys |->
                         IF k[2] = repo_name /\ Tracks(k[1], repo_name) THEN hours
                         ELSE check_intervals[k]]
               /\ schedule_repo_check(repo_name, hours)
               /\ interval_repo' = [interval_repo EXCEPT ![u] = "none"]
          ELSE UNCHANGED <<check_intervals, aps_jobs, interval_repo>>
    /\ UNCHANGED <<envvars, repos, last_releases, repo_types, user_tokens,
                   user_gitlab_tokens, last_check, scan, now, fetches,
                   startup_jobs, sinkvars>>
    /\ IF Tracks(u, interval_repo[u]) THEN save_data ELSE UNCHANGED disk
    /\ UNCHANGED <<adminvars, dialogvars>>
    /\ Track("idle", {})

\* the upper limit of `1 <= hours <= 720`
MaxHours == 720

\* the texts a user sends when set_interval awaits the hours: text that int()
\* rejects, a negative number, zero, two numbers of the range, a number above it
HoursTexts ==
    {[numeric |-> FALSE, value |-> 0]}
        \cup [numeric : {TRUE}, value : {0 - TickHours, 0, TickHours, DefaultInterval, MaxHours + TickHours}]

\* the text is a number, whatever its value
AnyNumber(text) == text.numeric

\* `hours = int(update.message.text)`, `if not (1 <= hours <= 720): raise ValueError`
ValidHours(text) == text.numeric /\ 1 <= text.value /\ text.value <= MaxHours

\* set_interval on a text message: the ValueError branch answers "Please enter
\* a valid number of hours" and stays in AWAIT_INTERVAL_HOURS
set_interval_text(u, text) ==
    IF ValidHours(text)
    THEN set_interval(u, text.value)
    ELSE /\ variant = "telegram_bot"
         /\ interval_repo[u] # "none"
         /\ UNCHANGED <<envvars, disk, botvars, now, fetches, jobvars, sinkvars>>
         /\ UNCHANGED <<adminvars, dialogvars>>
         /\ Track("rejected", {})

\* --------------------------------------- bot.py / main.py: the input prompts
\* button_callback, query.data == 'add_github' (prompt = "github_repo") and
\* 'set_github_token' (prompt = "github_token"): the prompt is shown with its
\* Cancel button
open_prompt(u, prompt) ==
    /\ Loop
    /\ HandlerIdle
    /\ awaiting' = [awaiting EXCEPT ![u] = prompt]
    /\ cancelled' = [cancelled EXCEPT ![u] = FALSE]
    /\ UNCHANGED <<envvars, botvars, now, fetches, jobvars, sinkvars, adminvars>>
    /\ UNCHANGED disk
    /\ Track("idle", {})

\* button_callback, query.data == 'main_menu', reached by the Cancel button of
\* a prompt: the menu is shown; context.user_data is not touched
main_menu(u) ==
    /\ Loop
    /\ HandlerIdle
    /\ cancelled' = [cancelled EXCEPT ![u] = awaiting[u] # "none"]
    /\ UNCHANGED <<envvars, botvars, now, fetches, jobvars, sinkvars, adminvars,
                   awaiting>>
    /\ UNCHANGED disk
    /\ Track("idle", {})

\* handle_message on a text message of user u, the text a well-formed
\* owner/name r (as a token: any text)
handle_message(u, r) ==
    /\ Loop
    /\ HandlerIdle
    /\ IF awaiting[u] = "github_repo" /\ ~AlreadyAdded(u, r)
       THEN /\ repos' = [repos EXCEPT ![u] = Append(@, r)]
            /\ check_intervals' = [check_intervals EXCEPT ![<<u, r>>] = DefaultInterval]
            /\ repo_types' = [repo_types EXCEPT ![<<u, r>>] = "github"]
            /\ known' = known \cup {u}
            /\ UNCHANGED user_tokens
       ELSE IF awaiting[u] = "github_token"
       THEN /\ user_tokens' = user_tokens \cup {u}
            /\ UNCHANGED <<repos, check_intervals, repo_types, known>>
       ELSE UNCHANGED <<repos, check_intervals, repo_types, known, user_tokens>>
    /\ IF awaiting[u] = "github_repo" /\ AlreadyAdded(u, r)
       THEN UNCHANGED dialogvars
       ELSE /\ awaiting' = [awaiting EXCEPT ![u] = "none"]
            /\ cancelled' = [cancelled EXCEPT ![u] = FALSE]
    /\ UNCHANGED <<variant, latest, writable, inflight, scan_keys, last_releases,
                   user_gitlab_tokens, interval_repo, last_check, scan, now,
                   fetches, jobvars, sinkvars, adminvars>>
    /\ IF awaiting[u] \in {"github_repo", "github_token"} THEN save_data
       ELSE UNCHANGED disk
    /\ Track(IF awaiting[u] = "none" THEN "idle" ELSE awaiting[u], {})

\* ------------------------------------------------------------------ clock
\* hours pass; a request in flight ends, by its timeout at the latest, long
\* before an hour has passed
Tick(hours) ==
    /\ Loop
    /\ ScanIdle
    /\ HandlerIdle
    /\ now + hours <= TickHours * MaxTicks
    /\ now' = now + hours
    /\ UNCHANGED <<envvars, botvars, fetches, jobvars, sinkvars>>
    /\ UNCHANGED disk
    /\ UNCHANGED <<adminvars, dialogvars>>
    /\ Track("idle", {})

\* the maintainers of repository r publish its next release
Publish(r) ==
    /\ latest[r] < NumTags
    /\ latest' = [latest EXCEPT ![r] = @ + 1]
    /\ UNCHANGED <<variant, inflight, dictvars, writable, botvars, now, fetches, jobvars, sinkvars>>
    /\ UNCHANGED disk
    /\ UNCHANGED <<adminvars, dialogvars>>
    /\ Track("idle", {})

\* a release that appears while check_all_repos sleeps between two passes
PublishAsleep(r) ==
    /\ Sleeping
    /\ Publish(r)

\* the data file of bot.py / main.py stops being writable (disk full, file
\* permissions), or becomes writable again
DiskTurns ==
    /\ Loop
    /\ writable' = ~writable
    /\ UNCHANGED <<variant, latest, inflight, dictvars, disk, botvars, now,
                   fetches, jobvars, sinkvars>>
    /\ UNCHANGED <<adminvars, dialogvars>>
    /\ Track("idle", {})

\* ---------------------------------------------------------- specification
\* bot.py / main.py started on an empty bot_data.json (bot.py: on one that
\* holds the users' tokens)
InitLoop ==
    /\ variant \in {"main", "bot"}
    /\ repos = [u \in Users |-> <<>>]
    /\ check_intervals = [k \in Keys |-> None]
    /\ last_releases = [k \in Keys |-> None]
    /\ repo_types = [k \in Keys |-> "none"]
    /\ user_tokens = IF variant = "main" THEN {} ELSE Users
    /\ user_gitlab_tokens = IF variant = "main" THEN {} ELSE Users
    /\ startup_jobs = [r \in Repos |-> None]

\* main(): repo_intervals[repo_name], the interval of the first subscription of
\* the repository met in bot_data["users"]; None when nobody tracks it
repo_intervals(r) ==
    IF \E u \in Users : Tracks(u, r)
    THEN check_intervals[<<FirstTrackerFrom(1, r), r>>]
    ELSE None

\* telegram_bot.py started on a bot_data.json written by an earlier run:
\* main() makes one job for every repository some user tracks
InitJobs ==
    /\ variant = "telegram_bot"
    /\ user_tokens \in SUBSET Users
    /\ repos \in [Users -> {<<>>} \cup {<<r>> : r \in Repos}]
    /\ \A u \in Users : repos[u] # <<>> => u \in user_tokens
    /\ last_releases \in [Keys -> Tags \cup {None}]
    /\ \A k \in Keys : ~Tracks(k[1], k[2]) => last_releases[k] = None
    /\ check_intervals =
          [k \in Keys |-> IF Tracks(k[1], k[2]) THEN DefaultInterval ELSE None]
    /\ repo_types = [k \in Keys |-> "none"]
    /\ user_gitlab_tokens = {}
    /\ startup_jobs = [r \in Repos |-> repo_intervals(r)]

\* the state of a process that has just started
Started ==
    /\ aps_jobs = [r \in Repos |-> None]
    /\ interval_repo = [u \in Users |-> "none"]
    /\ last_check = [k \in Keys |-> Never]
    /\ now = 0
    /\ scan = <<0, 0>>
    /\ fetches = NoFetches
    /\ sent = [c \in Cells |-> 0]
    /\ delivered = {}
    /\ outcome = "idle"
    /\ removed = {}
    /\ held = [k \in Keys |-> {last_releases[k]} \ {None}]
    /\ latest = [r \in Repos |-> None]
    /\ settings = IF variant = "telegram_bot" THEN DefaultData ELSE DefaultSettings
    /\ exported = [made |-> FALSE]
    /\ awaiting = [u \in Users |-> "none"]
    /\ cancelled = [u \in Users |-> FALSE]
    /\ inflight = [scan |-> NoKey, handler |-> NoKey]
    /\ known = {u \in Users : repos[u] # <<>>}
    /\ writable = TRUE
    /\ disk = last_releases
    /\ scan_keys = 0

Init ==
    /\ InitLoop \/ InitJobs
    /\ Started

\* the subscription operations and the polls of the three variants: the users
\* in US press the buttons, the hosting API answers from RS, repositories are
\* added on the platforms in PS
Ops(US, RS, PS) ==
    \/ ScanStart
    \/ \E resp \in RS, ok \in BOOLEAN : ScanVisit(resp, ok)
    \/ ScanEnd
    \/ \E u \in US, resps \in [Repos -> RS], ok \in [Repos -> BOOLEAN] :
          CheckNow(u, resps, ok)
    \/ \E u \in US, r \in Repos, p \in PS : AddRepo(u, r, p)
    \/ \E u \in US, r \in Repos : DeleteRepo(u, r)
    \/ \E u \in US, p \in PS : SetToken(u, p)
    \/ Tick(DefaultInterval)
    \/ \E r \in Repos, resp \in RS, ok \in [Users -> BOOLEAN] :
          check_releases(r, resp, ok)
    \/ \E u \in US, resps \in [Repos -> RS], ok \in [Repos -> BOOLEAN] :
          check_now_user(u, resps, ok)
    \/ \E u \in US, r \in Repos, resp \in RS : add_repo(u, r, resp)
    \/ \E u \in US, r \in Repos : handle_delete_repo(u, r)
    \/ \E u \in US : set_github_token(u)

\* one user at the buttons, every answer of the hosting API
NextDedup == Ops({"u1"}, Responses, Platforms)

SpecDedup == Init /\ [][NextDedup]_vars

\* two users at the buttons of one GitHub repository whose latest release
\* stays R = 1
SameRelease == {x \in Responses : x.kind = "release" /\ x.tag = 1}

NextShared ==
    \/ Ops(Users, SameRelease, {"github"})
    \/ ScanAbort

SpecShared == Init /\ [][NextShared]_vars

\* telegram_bot.py: the jobs of the scheduler under the subscription handlers
InitSchedule ==
    /\ InitJobs
    /\ Started

NextSchedule ==
    \/ \E u \in Users, r \in Repos, resp \in SameRelease : add_repo(u, r, resp)
    \/ \E u \in Users, r \in Repos : handle_delete_repo(u, r)
    \/ \E u \in Users : set_github_token(u)
    \/ \E u \in Users, r \in Repos : prompt_interval_hours(u, r)
    \/ \E u \in Users, h \in IntervalChoices : set_interval(u, h)
    \/ \E r \in Repos, resp \in SameRelease, ok \in [Users -> {TRUE}] :
          check_releases(r, resp, ok)

SpecSchedule == InitSchedule /\ [][NextSchedule]_vars

\* bot.py / main.py: two subscribers of one GitHub repository choose their
\* intervals; releases appear between the passes of check_all_repos
InitCadence ==
    /\ InitLoop
    /\ Started

NextCadence ==
    \/ ScanStart
    \/ ScanAnswered
    \/ ScanEnd
    \/ \E u \in Users, r \in Repos : AddRepo(u, r, "github")
    \/ \E u \in Users : SetToken(u, "github")
    \/ \E u \in Users, r \in Repos : IntervalSelect(u, r)
    \/ \E u \in Users, h \in IntervalChoices : SetInterval(u, h)
    \/ Tick(TickHours)
    \/ \E r \in Repos : PublishAsleep(r)
    \/ ScanAbort

SpecCadence == InitCadence /\ [][NextCadence]_vars

\* bot.py / main.py: the requests of check_all_repos and of 'check_now' await
\* their responses while the handlers of one user run
InitFlight ==
    /\ InitLoop
    /\ Started

GitHubAnswers == {x \in Responses : x.kind # "empty"}

NextFlight ==
    \/ ScanStart
    \/ ScanSkip
    \/ ScanRequest
    \/ \E resp \in GitHubAnswers, ok \in BOOLEAN : ScanResponse(resp, ok)
    \/ ScanEnd
    \/ CheckNowRequest("u1")
    \/ \E resp \in GitHubAnswers, ok \in BOOLEAN : CheckNowResponse(resp, ok)
    \/ \E r \in Repos : AddRepo("u1", r, "github")
    \/ \E r \in Repos : DeleteRepo("u1", r)
    \/ SetToken("u1", "github")
    \/ Tick(DefaultInterval)

SpecFlight == InitFlight /\ [][NextFlight]_vars

\* bot.py / main.py: the owner imports documents between the passes
InitImport ==
    /\ InitLoop
    /\ Started

NextImport ==
    \/ ScanStart
    \/ \E resp \in SameRelease, ok \in BOOLEAN : ScanVisit(resp, ok)
    \/ ScanEnd
    \/ \E r \in Repos : AddRepo("u1", r, "github")
    \/ SetToken("u1", "github")
    \/ \E d \in Documents : import_data(d)
    \/ Tick(DefaultInterval)

SpecImport == InitImport /\ [][NextImport]_vars

\* bot.py / main.py: one user, one GitHub repository and a data file that
\* cannot always be written
InitDisk ==
    /\ InitLoop
    /\ Started

NextDisk ==
    \/ ScanStart
    \/ \E resp \in GitHubAnswers, ok \in BOOLEAN : ScanVisit(resp, ok)
    \/ ScanEnd
    \/ \E r \in Repos : AddRepo("u1", r, "github")
    \/ SetToken("u1", "github")
    \/ Tick(DefaultInterval)
    \/ DiskTurns

SpecDisk == InitDisk /\ [][NextDisk]_vars

\* bot.py / main.py: one user, one GitHub repository, every answer of the
\* hosting API, the interval buttons and a clock that advances by six hours
InitEligible ==
    /\ InitLoop
    /\ Started

NextEligible ==
    \/ ScanStart
    \/ \E resp \in GitHubAnswers, ok \in BOOLEAN : ScanVisit(resp, ok)
    \/ ScanEnd
    \/ \E r \in Repos : AddRepo("u1", r, "github")
    \/ SetToken("u1", "github")
    \/ \E r \in Repos : IntervalSelect("u1", r)
    \/ \E h \in IntervalChoices : SetInterval("u1", h)
    \/ Tick(TickHours)

SpecEligible == InitEligible /\ [][NextEligible]_vars

\* bot.py: the hosting API is out of order; every request of the scan raises
\* or is answered 403 (rate limit) or 500
TransientAnswers ==
    {x \in Responses : x.kind = "exception" \/ x.status \in {403, 500}}

InitOutage ==
    /\ InitLoop
    /\ Started

NextOutage ==
    \/ ScanStart
    \/ \E resp \in TransientAnswers, ok \in BOOLEAN : ScanVisit(resp, ok)
    \/ ScanEnd
    \/ \E r \in Repos : AddRepo("u1", r, "github")
    \/ \E r \in Repos : IntervalSelect("u1", r)
    \/ \E h \in IntervalChoices : SetInterval("u1", h)
    \/ Tick(TickHours)

SpecOutage == InitOutage /\ [][NextOutage]_vars

\* the three variants: subscriptions added and deleted, intervals chosen at the
\* buttons (bot.py, main.py) or typed (telegram_bot.py), the store imported
InitInterval == Init

NextInterval ==
    \/ \E u \in Users, r \in Repos, p \in Platforms : AddRepo(u, r, p)
    \/ \E u \in Users, r \in Repos : DeleteRepo(u, r)
    \/ \E u \in Users, r \in Repos : IntervalSelect(u, r)
    \/ \E u \in Users, h \in IntervalChoices : SetInterval(u, h)
    \/ \E d \in Documents : import_data(d)
    \/ \E u \in Users : set_github_token(u)
    \/ \E u \in Users, r \in Repos, resp \in SameRelease : add_repo(u, r, resp)
    \/ \E u \in Users, r \in Repos : handle_delete_repo(u, r)
    \/ \E u \in Users, r \in Repos : prompt_interval_hours(u, r)
    \/ \E u \in Users, text \in HoursTexts : set_interval_text(u, text)

SpecInterval == InitInterval /\ [][NextInterval]_vars

\* telegram_bot.py: the jobs of main() fire while subscribers come and go and
\* send_message fails for any of them
InitFanOut ==
    /\ InitJobs
    /\ Started

\* /releases/latest answers 200 with a release object, its id present or not
Releases == {x \in Responses : x.kind = "release" /\ x.status = 200}

NextFanOut ==
    \/ \E u \in Users, r \in Repos, resp \in SameRelease : add_repo(u, r, resp)
    \/ \E u \in Users, r \in Repos : handle_delete_repo(u, r)
    \/ \E u \in Users : set_github_token(u)
    \/ \E r \in Repos, resp \in Releases, ok \in [Users -> BOOLEAN] :
          check_releases(r, resp, ok)

SpecFanOut == InitFanOut /\ [][NextFanOut]_vars

\* the three variants: repositories are added, added again and deleted, on
\* either platform, and the scan of bot.py / main.py polls them
InitAdd == Init

NextAdd ==
    \/ \E u \in Users, r \in Repos, p \in Platforms : handle_message_repo(u, r, p)
    \/ \E u \in Users, r \in Repos : DeleteRepo(u, r)
    \/ \E u \in Users, r \in Repos : IntervalSelect(u, r)
    \/ \E u \in Users, h \in IntervalChoices : SetInterval(u, h)
    \/ ScanStart
    \/ \E resp \in SameRelease, ok \in {TRUE} : ScanVisit(resp, ok)
    \/ ScanEnd
    \/ \E u \in Users : set_github_token(u)
    \/ \E u \in Users, r \in Repos, resp \in SameRelease : add_repo_text(u, r, resp)
    \/ \E u \in Users, r \in Repos : handle_delete_repo(u, r)
    \/ \E u \in Users, r \in Repos : prompt_interval_hours(u, r)
    \/ \E u \in Users, h \in IntervalChoices : set_interval(u, h)

SpecAdd == InitAdd /\ [][NextAdd]_vars

\* bot.py / main.py: the owner downloads the store, the store changes (a
\* subscription, its interval, its marker, a token, the list of banned users,
\* the required channel, the public switch), and the owner imports the document
InitBackup ==
    /\ InitLoop
    /\ Started

NextBackup ==
    \/ \E r \in Repos : AddRepo("u1", r, "github")
    \/ \E r \in Repos : DeleteRepo("u1", r)
    \/ SetToken("u1", "github")
    \/ \E r \in Repos : IntervalSelect("u1", r)
    \/ SetInterval("u1", TickHours)
    \/ ScanStart
    \/ \E resp \in SameRelease : ScanVisit(resp, TRUE)
    \/ ScanEnd
    \/ toggle_public
    \/ ban_user("u2")
    \/ unban_user("u2")
    \/ \E c \in Channels \cup {NoChannel} : required_channel(c)
    \/ download_data
    \/ import_exported

SpecBackup == InitBackup /\ [][NextBackup]_vars

\* bot.py / main.py: the users open the prompts, cancel them, send text
\* messages and delete repositories
InitPrompt ==
    /\ InitLoop
    /\ Started

NextPrompt ==
    \/ \E u \in Users, prompt \in {"github_repo", "github_token"} : open_prompt(u, prompt)
    \/ \E u \in Users : main_menu(u)
    \/ \E u \in Users, r \in Repos : handle_message(u, r)
    \/ \E u \in Users, r \in Repos : DeleteRepo(u, r)

SpecPrompt == InitPrompt /\ [][NextPrompt]_vars

\* telegram_bot.py: u1 tracks r1 and, after it in the dict, one more
\* repository, whose marker the model does not follow; the jobs of r1 fire and
\* u1 presses 'check now'
Further == "r2"

InitManual ==
    /\ variant = "telegram_bot"
    /\ user_tokens = {"u1"}
    /\ user_gitlab_tokens = {}
    /\ repos = [u \in Users |-> IF u = "u1" THEN <<"r1", Further>> ELSE <<>>]
    /\ last_releases \in [Keys -> Tags \cup {None}]
    /\ \A k \in Keys : ~Tracks(k[1], k[2]) => last_releases[k] = None
    /\ check_intervals =
          [k \in Keys |-> IF Tracks(k[1], k[2]) THEN DefaultInterval ELSE None]
    /\ repo_types = [k \in Keys |-> "none"]
    /\ startup_jobs = [r \in Repos |-> repo_intervals(r)]
    /\ Started

\* the answers to the requests of 'check now': a release, 404, 401, 500 or a
\* failed request
ManualAnswers == {x \in Responses : x.kind # "empty"}

NextManual ==
    \/ \E resps \in [Repos \cup {Further} -> ManualAnswers],
          ok \in [Repos \cup {Further} -> BOOLEAN] :
          check_now_user("u1", resps, ok)
    \/ \E r \in Repos, resp \in Releases, ok \in [Users -> BOOLEAN] :
          check_releases(r, resp, ok)
    \/ \E r \in Repos : handle_delete_repo("u1", r)
    \/ \E r \in Repos, resp \in SameRelease : add_repo("u1", r, resp)

SpecManual == InitManual /\ [][NextManual]_vars

\* bot.py / main.py: the store is filled at the buttons and by the scan, and
\* the owner sends documents that import_data refuses
InitRestore ==
    /\ InitLoop
    /\ Started

NextRestore ==
    \/ \E u \in Users, r \in Repos : AddRepo(u, r, "github")
    \/ \E u \in Users, r \in Repos : DeleteRepo(u, r)
    \/ SetToken("u1", "github")
    \/ toggle_public
    \/ ScanStart
    \/ \E resp \in SameRelease : ScanVisit(resp, TRUE)
    \/ ScanEnd
    \/ \E d \in Documents, parses \in BOOLEAN : import_data_fails(d, parses)

SpecRestore == InitRestore /\ [][NextRestore]_vars

\* bot.py: the process is stopped and started again. BotData() runs
\* load_data, which reads the fields of the store from the data file (the
\* markers are those of the file; the other fields are the store's as long as
\* every write succeeded, which is the case wherever this action is used);
\* context.bot_data and context.user_data start empty, so every last-check
\* timestamp and every open prompt is gone, and check_all_repos starts with
\* its first pass
restart ==
    /\ variant = "bot"
    /\ last_releases' = disk
    /\ last_check' = [k \in Keys |-> Never]
    /\ scan' = <<0, 0>>
    /\ scan_keys' = 0
    /\ inflight' = [scan |-> NoKey, handler |-> NoKey]
    /\ interval_repo' = [u \in Users |-> "none"]
    /\ awaiting' = [u \in Users |-> "none"]
    /\ cancelled' = [u \in Users |-> FALSE]
    /\ fetches' = NoFetches
    /\ UNCHANGED <<variant, latest, known, writable, repos, check_intervals,
                   repo_types, user_tokens, user_gitlab_tokens, now, jobvars,
                   sinkvars, adminvars>>
    /\ UNCHANGED disk
    /\ Track("restarted", {})

\* a user beyond Users, with no entry in bot_data.repos when the process
\* starts
Newcomer == "u3"

\* handle_message, awaiting a repository, for the newcomer:
\* `bot_data.repos[user_id] = []` inserts a key into the dict the pass
\* iterates, at its end. The list of the newcomer is not part of `repos`: a
\* pass that iterates the grown dict from its start is not modelled beyond
\* the users of Users
NewcomerAdds ==
    /\ Loop
    /\ HandlerIdle
    /\ Newcomer \notin known
    /\ known' = known \cup {Newcomer}
    /\ UNCHANGED <<variant, latest, writable, inflight, scan_keys, botvars,
                   now, fetches, jobvars, sinkvars>>
    /\ save_data
    /\ UNCHANGED <<adminvars, dialogvars>>
    /\ Track("idle", {})

\* bot.py started on a data file in which every user of Users tracks a GitHub
\* repository, with or without a marker
InitReboot ==
    /\ variant = "bot"
    /\ \E r \in Repos : repos = [u \in Users |-> <<r>>]
    /\ check_intervals = [k \in Keys |-> DefaultInterval]
    /\ last_releases \in [Keys -> Tags \cup {None}]
    /\ repo_types = [k \in Keys |-> "github"]
    /\ user_tokens = Users
    /\ user_gitlab_tokens = Users
    /\ startup_jobs = [r \in Repos |-> None]
    /\ Started

NextReboot ==
    \/ restart
    \/ ScanStart
    \/ \E resp \in Releases, ok \in BOOLEAN : ScanVisit(resp, ok)
    \/ ScanEnd
    \/ ScanAbort
    \/ NewcomerAdds
    \/ Tick(DefaultInterval)

SpecReboot == InitReboot /\ [][NextReboot]_vars

\* ------------------------------------ telegram_bot.py: the access lists
\* the owner of the bot, an id of no subscriber
OWNER_ID == "owner"
Ids == Users \cup {OWNER_ID}

\* the texts the owner sends when a user id is awaited: text that int()
\* rejects, and the ids
IdTexts == [numeric : {FALSE}, value : {OWNER_ID}] \cup [numeric : {TRUE}, value : Ids]

\* a list from which nothing is removed
KeepAll(s, x) == s

\* list.remove(x): the list without the first occurrence of x
RemoveFirst(s, x) ==
    LET i == CHOOSE j \in 1..Len(s) :
                 s[j] = x /\ \A n \in 1..(j - 1) : s[n] # x
    IN SubSeq(s, 1, i - 1) \o SubSeq(s, i + 1, Len(s))

\* a handler of the owner panel that changes nothing: the reply only
Refuses ==
    /\ UNCHANGED <<envvars, disk, botvars, now, fetches, jobvars, sinkvars>>
    /\ UNCHANGED <<adminvars, dialogvars>>
    /\ Track("rejected", {})

\* a handler of the owner panel that has rewritten the access lists
Lists(kind) ==
    /\ UNCHANGED <<envvars, botvars, now, fetches, jobvars, sinkvars, exported,
                   dialogvars>>
    /\ save_data
    /\ Track(kind, {})

\* ban_user: int() of the text, the owner refused, an id not yet banned is
\* appended to banned_users and taken off special_users
ban_user_text(text) ==
    /\ variant = "telegram_bot"
    /\ IF ~text.numeric \/ text.value = OWNER_ID
          \/ text.value \in Range(settings.banned_users)
       THEN Refuses
       ELSE /\ settings' =
                  [settings EXCEPT
                      !.banned_users = Append(@, text.value),
                      !.special_users =
                          IF text.value \in Range(@)
                          THEN RemoveFirst(@, text.value) ELSE @]
            /\ Lists(IF text.value \in Range(settings.special_users)
                     THEN "unlisted" ELSE "idle")

\* unban_user
unban_user_text(text) ==
    /\ variant = "telegram_bot"
    /\ IF text.numeric /\ text.value \in Range(settings.banned_users)
       THEN /\ settings' =
                  [settings EXCEPT !.banned_users = RemoveFirst(@, text.value)]
            /\ Lists("idle")
       ELSE Refuses

\* add_special_user: a banned id is refused, an id not yet special appended
add_special_user(text) ==
    /\ variant = "telegram_bot"
    /\ IF ~text.numeric \/ text.value \in Range(settings.banned_users)
          \/ text.value \in Range(settings.special_users)
       THEN Refuses
       ELSE /\ settings' =
                  [settings EXCEPT !.special_users = Append(@, text.value)]
            /\ Lists("idle")

\* remove_special_user
remove_special_user(text) ==
    /\ variant = "telegram_bot"
    /\ IF text.numeric /\ text.value \in Range(settings.special_users)
       THEN /\ settings' =
                  [settings EXCEPT !.special_users = RemoveFirst(@, text.value)]
            /\ Lists("idle")
       ELSE Refuses

\* toggle_public_mode
toggle_public_mode ==
    /\ variant = "telegram_bot"
    /\ settings' = [settings EXCEPT !.is_public = ~@]
    /\ Lists("idle")

\* telegram_bot.py started without a data file, the owner at the panel
InitAccess ==
    /\ InitJobs
    /\ Started

NextAccess ==
    \/ \E text \in IdTexts : ban_user_text(text)
    \/ \E text \in IdTexts : unban_user_text(text)
    \/ \E text \in IdTexts : add_special_user(text)
    \/ \E text \in IdTexts : remove_special_user(text)
    \/ toggle_public_mode

SpecAccess == InitAccess /\ [][NextAccess]_vars

\* every operation of the model
Next ==
    \/ Ops(Users, Responses, Platforms)
    \/ \E u \in Users, r \in Repos : IntervalSelect(u, r)
    \/ \E u \in Users, h \in IntervalChoices : SetInterval(u, h)
    \/ Tick(TickHours)
    \/ \E u \in Users, r \in Repos : prompt_interval_hours(u, r)
    \/ \E u \in Users, h \in IntervalChoices : set_interval(u, h)
    \/ \E r \in Repos : Publish(r)
    \/ ScanAbort
    \/ DiskTurns
    \/ \E d \in Documents : import_data(d)
    \/ ScanRequest
    \/ \E resp \in Responses, ok \in BOOLEAN : ScanResponse(resp, ok)
    \/ \E u \in Users : CheckNowRequest(u)
    \/ \E resp \in Responses, ok \in BOOLEAN : CheckNowResponse(resp, ok)

Spec == Init /\ [][Next]_vars

\* ------------------------------------------------------------- properties
\* the next visit of the scan fetches the latest release of ScanKey
ScanFetches ==
    /\ Loop
    /\ ~Sleeping
    /\ NextPos(scan[1], scan[2]) # <<0, 0>>
    /\ Due(ScanKey)
    /\ HasToken(ScanKey[1], ScanKey[2])

\* a poll outcome other than a found release
NotFound(resp) == resp.kind \in {"empty", "error", "exception"}

\* the step leaves the notification counters of subscription k alone
SilentFor(k) == \A t \in Tags : sent'[<<k[1], k[2], t>>] = sent[<<k[1], k[2], t>>]

\* the step hands exactly one notification to subscriber k, for release t
OneFor(k, t) ==
    \A c \in Cells :
        sent'[c] = IF c = <<k[1], k[2], t>> THEN sent[c] + 1 ELSE sent[c]

\* C1: an automatic poll of check_repo_updates that fetches release R for a
\* subscription whose marker is non-null sets the marker to R; it sends exactly
\* one notification, naming R, when the marker differed from R, and nothing
\* when the marker already was R (the repeat poll).
C1_ScheduledPollNotifiesOnce ==
    [][\A resp \in Responses, ok \in BOOLEAN :
          (/\ ScanFetches
           /\ ScanVisit(resp, ok)
           /\ Found(resp)
           /\ last_releases[ScanKey] # None)
          => /\ last_releases'[ScanKey] = resp.tag
             /\ IF last_releases[ScanKey] # resp.tag
                THEN OneFor(ScanKey, resp.tag)
                ELSE sent' = sent]_vars

\* a scheduled poll has fetched a release the subscriber holds one
\* notification for, and the marker is that release
C1_Witness ==
    /\ Loop
    /\ ~Sleeping
    /\ outcome = "release"
    /\ \E c \in Cells :
          /\ sent[c] = 1
          /\ last_releases[<<c[1], c[2]>>] = c[3]
          /\ last_check[<<c[1], c[2]>>] = now

\* C2: over polls (scheduled and forced) that all return the same release R,
\* no subscriber is handed more than one notification for R.
C2_OneNotificationPerRelease == \A c \in Cells : sent[c] <= 1

\* C3: an automatic poll (check_repo_updates in the scan, check_releases) that
\* fetches release R for a subscription whose marker is null sets the marker to
\* R and sends that subscriber nothing.
C3_FirstObservationSilent ==
    [][/\ \A resp \in Responses, ok \in BOOLEAN :
             (/\ ScanFetches
              /\ ScanVisit(resp, ok)
              /\ Found(resp)
              /\ last_releases[ScanKey] = None)
             => /\ last_releases'[ScanKey] = resp.tag
                /\ SilentFor(ScanKey)
       /\ \A r \in Repos, resp \in Responses, ok \in [Users -> BOOLEAN], u \in Users :
             (/\ check_releases(r, resp, ok)
              /\ TokenFor(r)
              /\ Found(resp)
              /\ Tracks(u, r)
              /\ last_releases[<<u, r>>] = None)
             => /\ last_releases'[<<u, r>>] = resp.tag
                /\ SilentFor(<<u, r>>)]_vars

\* C4: the check_now button (check_repo_updates with force=True) sends, for
\* every repository of the subscriber whose fetch returns a release R, one
\* notification reporting R, whatever the marker was, and sets the marker to R.
C4_CheckNowReports ==
    [][\A u \in Users, resps \in [Repos -> Responses], ok \in [Repos -> BOOLEAN] :
          CheckNow(u, resps, ok)
          => \A r \in Range(repos[u]) :
                (HasToken(u, r) /\ Found(resps[r]))
                => /\ last_releases'[<<u, r>>] = resps[r].tag
                   /\ sent'[<<u, r, resps[r].tag>>] = sent[<<u, r, resps[r].tag>>] + 1]_vars

\* what the dedup comparison asks of a check of subscription k that fetched
\* release t while the marker was non-null
Deduped(k, t) ==
    /\ last_releases'[k] = t
    /\ \A x \in Tags :
          sent'[<<k[1], k[2], x>>] =
             IF x = t /\ last_releases[k] # t
             THEN sent[<<k[1], k[2], x>>] + 1
             ELSE sent[<<k[1], k[2], x>>]

\* C5: a forced check (check_now of bot.py and main.py, check_now_user of
\* telegram_bot.py) that fetches release R for a subscription with a non-null
\* marker sends nothing and keeps the marker when the marker is R, and sends
\* exactly one notification and moves the marker to R when it is not.
C5_ForceKeepsDedup ==
    [][/\ \A u \in Users, resps \in [Repos -> Responses], ok \in [Repos -> BOOLEAN] :
             CheckNow(u, resps, ok)
             => \A r \in Range(repos[u]) :
                   (/\ HasToken(u, r)
                    /\ Found(resps[r])
                    /\ last_releases[<<u, r>>] # None)
                   => Deduped(<<u, r>>, resps[r].tag)
       /\ \A u \in Users, resps \in [Repos -> Responses], ok \in [Repos -> BOOLEAN] :
             check_now_user(u, resps, ok)
             => \A r \in VisitedFrom(repos[u], 1, resps) :
                   (Found(resps[r]) /\ last_releases[<<u, r>>] # None)
                   => Deduped(<<u, r>>, resps[r].tag)]_vars

\* the step leaves subscription k and the rest of the store as they were
StoreKeeps(k) ==
    /\ last_releases'[k] = last_releases[k]
    /\ UNCHANGED <<repos, check_intervals, repo_types, user_tokens, user_gitlab_tokens>>

\* the step changes neither the store nor the notification counters
Untouched ==
    /\ sent' = sent
    /\ UNCHANGED <<repos, check_intervals, last_releases, repo_types, user_tokens,
                   user_gitlab_tokens>>

\* the sink outcome plays no part in a poll that hands nothing to the sink
AllSent(S) == [x \in S |-> TRUE]

\* every poll this step can be, if it ended without a found release, kept the
\* polled subscription, the store and the notification counters
FailedPollsKeep ==
    LET Failures == {x \in Responses : NotFound(x)}
    IN /\ \A resp \in Failures :
             (ScanFetches /\ ScanVisit(resp, TRUE))
             => (StoreKeeps(ScanKey) /\ SilentFor(ScanKey))
       /\ \A u \in Users, resps \in [Repos -> Failures] :
             CheckNow(u, resps, AllSent(Repos))
             => \A r \in Range(repos[u]) :
                   StoreKeeps(<<u, r>>) /\ SilentFor(<<u, r>>)
       /\ \A r \in Repos, resp \in Failures :
             check_releases(r, resp, AllSent(Users))
             => \A u \in Users : StoreKeeps(<<u, r>>) /\ SilentFor(<<u, r>>)
       /\ \A u \in Users, resps \in [Repos -> Failures] :
             check_now_user(u, resps, AllSent(Repos))
             => \A r \in Range(repos[u]) :
                   StoreKeeps(<<u, r>>) /\ SilentFor(<<u, r>>)

\* C6: a poll that ends with anything but a found release (404, 401, 403, any
\* other non-200 status, an empty GitLab list, a network exception) sends no
\* release notification and leaves the store unchanged: the marker of the
\* polled subscription, the subscriptions, the intervals, the platforms and the
\* tokens.  (A step that touches nothing needs no look at which poll it was.)
C6_FailedPollChangesNothing == [][Untouched \/ FailedPollsKeep]_vars

\* a poll of a subscription that holds a marker has just ended without a
\* found release
C6_Witness ==
    /\ outcome \in {"empty", "error", "exception"}
    /\ \E k \in Keys : Tracks(k[1], k[2]) /\ last_releases[k] # None

\* C7: the marker update and the notification are atomic: a step that hands a
\* notification for release R to the sink leaves the marker at R and the send
\* completed, so that the marker is never R with the notification for R not
\* sent, and no notification is sent with the marker not R.
C7_MarkerAndNotificationAtomic ==
    [][\A c \in Cells :
          sent'[c] # sent[c]
          => /\ last_releases'[<<c[1], c[2]>>] = c[3]
             /\ c \in delivered']_vars

\* C8: while a subscription exists, a step that changes its marker (a poll)
\* sets it neither to null nor to an identifier the marker has held since the
\* subscription was created.
C8_MarkerNeverReverts ==
    [][\A k \in Keys :
          (/\ Tracks(k[1], k[2])
           /\ k[2] \in Range(repos'[k[1]])
           /\ last_releases[k] # None
           /\ last_releases'[k] # last_releases[k])
          => /\ last_releases'[k] # None
             /\ last_releases'[k] \notin held[k]]_vars

\* C9: in one pass of the scan a repository causes at most one outbound
\* latest-release fetch, however many subscribers track it.
C9_OneFetchPerRepository == \A x \in Sites : fetches[x] <= 1

\* C10: when check_releases fetches release R for a shared repository, a
\* subscriber whose own marker is non-null is notified exactly when that marker
\* differs from R, whatever the markers of the other subscribers are.
C10_FanOutByOwnMarker ==
    [][\A r \in Repos, resp \in Responses, ok \in [Users -> BOOLEAN], u \in Users :
          (/\ check_releases(r, resp, ok)
           /\ TokenFor(r)
           /\ Found(resp)
           /\ Tracks(u, r)
           /\ last_releases[<<u, r>>] # None)
          => (sent'[<<u, r, resp.tag>>] = sent[<<u, r, resp.tag>>] + 1
                <=> last_releases[<<u, r>>] # resp.tag)]_vars

\* the hours between two polls of repository r: the shortest period of the
\* jobs the scheduler holds for it, None when it holds none
PollInterval(r) ==
    LET js == {startup_jobs[r], aps_jobs[r]} \ {None}
    IN IF js = {} THEN None ELSE CHOOSE h \in js : \A g \in js : h <= g

\* the shortest interval the subscribers of r have configured
MinConfigured(r) ==
    LET cs == {check_intervals[<<u, r>>] : u \in {v \in Users : Tracks(v, r)}}
    IN CHOOSE h \in cs : \A g \in cs : h <= g

\* C11: after any sequence of add, remove and set-interval operations a
\* repository with subscribers is polled at the minimum of the intervals its
\* subscribers have configured
C11_PollsAtMinimumInterval ==
    \A r \in Repos :
        (variant = "telegram_bot" /\ \E u \in Users : Tracks(u, r))
            => PollInterval(r) = MinConfigured(r)

\* subscriber B of r has seen an older release than t and has not been sent t
Owed(B, r, t) ==
    /\ \E old \in held[<<B, r>>] : old < t
    /\ sent[<<B, r, t>>] = 0

\* C12: with subscriber A at 6 hours and subscriber B at 24 hours on one
\* repository, a release that appeared between two passes and was notified to
\* A by a completed pass has been notified to B as well
C12_SharedCadence ==
    \A A \in Users, B \in Users, r \in Repos, t \in Tags :
        (/\ Sleeping
         /\ A # B
         /\ r \in Range(repos[A]) /\ r \in Range(repos[B])
         /\ check_intervals[<<A, r>>] = TickHours
         /\ check_intervals[<<B, r>>] = DefaultInterval
         /\ latest[r] = t
         /\ sent[<<A, r, t>>] > 0)
            => ~Owed(B, r, t)

\* the step just taken is a poll made by the scheduler: an iteration of
\* check_all_repos that fetched, or a firing of the job check_releases
AutomaticPoll ==
    \/ Loop /\ scan' # scan /\ outcome' # "idle"
    \/ /\ variant = "telegram_bot"
       /\ \E r \in Repos, resp \in Responses, ok \in [Users -> BOOLEAN] :
             check_releases(r, resp, ok)

\* the step removes subscription k and leaves no marker behind
RemovalPurges(k) ==
    (Tracks(k[1], k[2]) /\ ~Tracks(k[1], k[2])') => last_releases'[k] = None

\* the step adds subscription k again after a removal, its marker null
ReAddStartsNull(k) ==
    (k \in removed /\ ~Tracks(k[1], k[2]) /\ Tracks(k[1], k[2])')
        => last_releases'[k] = None

\* an automatic poll of a re-added subscription that has not observed a
\* release since sends its subscriber nothing
FirstPollSilent(k) ==
    (k \in removed /\ Tracks(k[1], k[2]) /\ held[k] = {} /\ AutomaticPoll)
        => \A t \in Tags : sent'[<<k[1], k[2], t>>] = sent[<<k[1], k[2], t>>]

\* C13: removing a subscription deletes its marker; a subscription added again
\* after a removal starts with a null marker, and its first automatic poll
\* sends no notification
C13_ReAddStartsClean ==
    [][\A k \in Keys :
          RemovalPurges(k) /\ ReAddStartsNull(k) /\ FirstPollSilent(k)]_vars

\* repository r had subscribers and its last subscription has been removed
Retired(r) ==
    /\ \E u \in Users : <<u, r>> \in removed
    /\ \A u \in Users : ~Tracks(u, r)

\* C14: once the last subscription of a repository is removed the scheduler
\* holds no job for it, whether the job was made by main() at startup or by
\* schedule_repo_check at runtime
C14_RetiredRepositoryHasNoJob ==
    \A r \in Repos :
        (variant = "telegram_bot" /\ Retired(r))
            => startup_jobs[r] = None /\ aps_jobs[r] = None

\* C15: a fetch of check_all_repos and a fetch of 'check_now' for the same
\* repository are never in flight together
C15_OneFetchInFlight ==
    ~(/\ ~ScanIdle
      /\ ~HandlerIdle
      /\ inflight.scan[2] = inflight.handler[2])

\* the response to the fetch of check_all_repos for key k arrives in this step
ScanArrives(k) == inflight.scan = k /\ inflight'.scan = NoKey

\* C16: when the response of a fetch arrives for a subscription that was
\* removed meanwhile, no marker is written for it and nothing is sent
C16_RemovedWhileInFlight ==
    [][\A k \in Keys :
          (ScanArrives(k) /\ ~Tracks(k[1], k[2]))
              => /\ last_releases'[k] = last_releases[k]
                 /\ \A t \in Tags : sent'[<<k[1], k[2], t>>] = sent[<<k[1], k[2], t>>]]_vars

\* the subscriptions the nested loops of the pass have not reached yet
Remaining ==
    LET p == NextPos(scan[1], scan[2])
    IN IF p = <<0, 0>> THEN {}
       ELSE {k \in Keys :
               /\ Tracks(k[1], k[2])
               /\ \E i \in p[1]..Len(UserOrder) : UserOrder[i] = k[1]}

\* C17: a pass of check_all_repos does not end while a subscription it has not
\* reached is due, whatever the handlers added or removed meanwhile
C17_PassReachesEveryDueSubscription ==
    [][(Loop /\ ~Sleeping /\ scan' = <<0, 0>>)
          => \A k \in Remaining : ~Due(k)]_vars

\* C18: after an import no imported subscription carries a last-check
\* timestamp of the time before it: each is scheduled from scratch
C18_ImportForgetsSchedule ==
    [][\A d \in Documents :
          import_data(d) => \A k \in d.tracked : last_check'[k] = Never]_vars

\* the step just taken is an iteration of the inner loop of check_all_repos
ScanVisits == Loop /\ ~Sleeping /\ scan' # scan /\ scan' # <<0, 0>>

\* the store holds a token of user k[1] for the platform of subscription k
StoredCredential(k) ==
    \/ RepoType(k) = "github" /\ k[1] \in user_tokens
    \/ RepoType(k) = "gitlab" /\ k[1] \in user_gitlab_tokens

\* the visit of a subscription whose user has no credential fetches nothing,
\* writes no marker and sends nothing
TokenlessNotPolled ==
    (ScanVisits /\ ~StoredCredential(ScanKey))
        => /\ fetches' = fetches
           /\ last_releases' = last_releases
           /\ sent' = sent
           /\ outcome' = "idle"

\* the visit of a due subscription whose user has a credential fetches the
\* repository, whoever else subscribes to it
CredentialledPolled ==
    (ScanVisits /\ StoredCredential(ScanKey) /\ Due(ScanKey))
        => /\ fetches'[<<RepoType(ScanKey), ScanKey[2]>>] =
                 fetches[<<RepoType(ScanKey), ScanKey[2]>>] + 1
           /\ outcome' # "idle"
           /\ last_check'[ScanKey] = now

\* telegram_bot.py: the job of a repository fetches when some tracker of the
\* repository has a token
PoolPolled ==
    \A r \in Repos, resp \in SameRelease, ok \in [Users -> BOOLEAN] :
        (check_releases(r, resp, ok)
         /\ \E u \in Users : Tracks(u, r) /\ u \in user_tokens)
            => outcome' = resp.kind

\* C19: a subscriber without a stored credential is not polled on their own
\* behalf, and a repository is still polled at its cadence for every
\* subscriber that has one
C19_PolledOnlyWithCredential ==
    [][TokenlessNotPolled /\ CredentialledPolled /\ PoolPolled]_vars

\* a pass has visited a due subscription of a user without a token, fetching
\* nothing, and has then polled the same repository for a user with a token
C19_Witness ==
    /\ Loop
    /\ ~Sleeping
    /\ outcome = "release"
    /\ \E k \in Keys, j \in Keys :
          /\ k[2] = j[2]
          /\ Tracks(k[1], k[2]) /\ Tracks(j[1], j[2])
          /\ ~StoredCredential(k) /\ StoredCredential(j)
          /\ last_check[k] = now /\ last_check[j] = now
          /\ last_releases[k] = None
          /\ fetches[<<RepoType(j), j[2]>>] = 1

\* the visit of check_all_repos that received `resp` reconciled a release
\* while the data file could not be written
SaveFails(resp) ==
    /\ ~writable
    /\ \E ok \in BOOLEAN : ScanVisit(resp, ok)
    /\ Due(ScanKey)
    /\ Writes(ScanKey[1], ScanKey[2], FALSE, resp)

\* C20: when save_data cannot write the file during a reconcile, the marker in
\* memory is not changed, nothing is sent and the subscription is left due
C20_FailedSaveRollsBack ==
    [][\A resp \in GitHubAnswers :
          SaveFails(resp)
              => /\ last_releases' = last_releases
                 /\ sent' = sent
                 /\ last_check' = last_check]_vars

\* subscription k has never been polled by the scan, or the hours of its
\* current interval have passed since the scan last polled it
Eligible(k) ==
    \/ last_check[k] = Never
    \/ now >= last_check[k] + (IF check_intervals[k] = None THEN DefaultInterval
                                ELSE check_intervals[k])

\* the step just taken is a visit of the scan that fetched
ScanPolls == ScanVisits /\ outcome' # "idle"

\* C21: the scan polls a subscription only when it is eligible, it polls a
\* credentialled subscription it visits when it is eligible, and whatever the
\* outcome of the poll the subscription is next eligible at the time of the
\* poll plus its interval
C21_NextDueAfterAnyOutcome ==
    [][/\ ScanPolls => Eligible(ScanKey)
       /\ ScanPolls => last_check'[ScanKey] = now
       /\ (ScanVisits /\ Eligible(ScanKey) /\ StoredCredential(ScanKey))
             => outcome' # "idle"]_vars

\* six hours after a poll the scan has polled the subscription again, at a
\* six-hour interval, and the second poll failed
C21_Witness ==
    /\ Loop
    /\ now = TickHours
    /\ outcome \in {"error", "exception"}
    /\ \E k \in Keys :
          /\ Tracks(k[1], k[2])
          /\ check_intervals[k] = TickHours
          /\ last_check[k] = now
          /\ last_releases[k] # None

\* the scan visits a credentialled subscription that it has polled before;
\* under SpecOutage that poll failed with a transient error
VisitsAfterFailure ==
    /\ ScanVisits
    /\ StoredCredential(ScanKey)
    /\ last_check[ScanKey] # Never

\* C22 as stated: a poll that failed with a transient error is attempted
\* again at the next pass of the scan loop
C22_RetriedAtNextPass ==
    [][VisitsAfterFailure => outcome' # "idle"]_vars

\* C22, amended: a poll that failed with a transient error is not attempted
\* again within the same pass, and it is attempted again at the first visit
\* at or after the time of the failed poll plus the interval, not before
C22_RetriedWhenDueAgain ==
    [][/\ VisitsAfterFailure => (outcome' # "idle" <=> Eligible(ScanKey))
       /\ ScanVisits => \A x \in Sites : fetches'[x] <= 1]_vars

\* a poll of hour 0 failed, 24 hours passed, and the scan stands before the
\* same subscription, whose interval of 24 hours has run out
C22_Witness ==
    /\ Loop
    /\ ~Sleeping
    /\ ScanIdle
    /\ now = DefaultInterval
    /\ NextPos(scan[1], scan[2]) # <<0, 0>>
    /\ StoredCredential(ScanKey)
    /\ last_check[ScanKey] = 0
    /\ Interval(ScanKey) = DefaultInterval

\* another subscriber of the repository of subscription k holds a marker
OthersHold(k) ==
    \E v \in Users \ {k[1]} : Tracks(v, k[2]) /\ last_releases[<<v, k[2]>>] # None

\* C23: a subscription created for a repository of which another subscriber
\* holds a marker starts with a null marker, and the first poll of it that
\* observes a release hands its subscriber exactly one notification, naming
\* that release.
C23_LateJoinerNotifiedOnce ==
    [][/\ \A u \in Users, r \in Repos, p \in Platforms :
             (AddRepo(u, r, p) /\ OthersHold(<<u, r>>))
             => last_releases'[<<u, r>>] = None
       /\ \A u \in Users, r \in Repos, resp \in Responses :
             (add_repo(u, r, resp) /\ OthersHold(<<u, r>>))
             => last_releases'[<<u, r>>] = None
       /\ \A resp \in Responses, ok \in BOOLEAN :
             (/\ ScanFetches
              /\ ScanVisit(resp, ok)
              /\ Found(resp)
              /\ last_releases[ScanKey] = None
              /\ OthersHold(ScanKey))
             => OneFor(ScanKey, resp.tag)]_vars

\* subscription k is in the list of its user and its interval, the stored one
\* or the 24 hours read when none is stored, is a whole number of hours above 0
PositiveInterval(k) ==
    LET hours == IF check_intervals[k] = None THEN DefaultInterval
                 ELSE check_intervals[k]
    IN hours \in Nat \ {0}

\* a text that is not a number of hours between 1 and 720
BadHours(text) == ~text.numeric \/ text.value < 1 \/ text.value > MaxHours

C25_FailedDeliveryDropped ==
    [][\A r \in Repos, resp \in Releases, ok \in [Users -> BOOLEAN] :
          /\ (/\ check_releases(r, resp, ok)
              /\ TokenFor(r)
              /\ Found(resp)
              /\ resp.tag # GlobalMarker(r))
             => \A u \in Users :
                   Tracks(u, r)
                   => /\ last_releases'[<<u, r>>] = resp.tag
                      /\ sent'[<<u, r, resp.tag>>] = sent[<<u, r, resp.tag>>] + 1
                      /\ ok[u] => <<u, r, resp.tag>> \in delivered'
                      /\ ~ok[u] => (<<u, r, resp.tag>> \in delivered'
                                       <=> <<u, r, resp.tag>> \in delivered)
          /\ (/\ check_releases(r, resp, ok)
              /\ Found(resp)
              /\ \A u \in Users : Tracks(u, r) => last_releases[<<u, r>>] = resp.tag)
             => sent' = sent /\ delivered' = delivered]_vars

\* both users track the repository; the release was sent to both, the send to
\* one of them failed, and both markers name the release
C25_Witness ==
    /\ variant = "telegram_bot"
    /\ \E r \in Repos, t \in Tags, u \in Users, v \in Users :
          /\ u # v
          /\ Tracks(u, r) /\ Tracks(v, r)
          /\ last_releases[<<u, r>>] = t /\ last_releases[<<v, r>>] = t
          /\ sent[<<u, r, t>>] = 1 /\ sent[<<v, r, t>>] = 1
          /\ <<u, r, t>> \notin delivered
          /\ <<v, r, t>> \in delivered

\* the answers 200 whose object carries no release identifier
NoIdentifier == {x \in Responses : x.status = 200 /\ x.kind = "release" /\ x.tag = None}

\* C26: a poll answered 200 with an object that carries no release identifier
\* (the scan of bot.py / main.py, the job of telegram_bot.py) changes no marker
\* and sends no notification.
C26_NoIdentifierChangesNothing ==
    [][\A resp \in NoIdentifier :
          /\ \A ok \in BOOLEAN :
                (ScanFetches /\ ScanVisit(resp, ok))
                => last_releases' = last_releases /\ sent' = sent
          /\ \A r \in Repos, ok \in [Users -> BOOLEAN] :
                check_releases(r, resp, ok)
                => last_releases' = last_releases /\ sent' = sent]_vars

\* C27: a subscriber of owner/name on GitHub who adds owner/name on GitLab
\* holds two subscriptions afterwards: the add is accepted and the list of the
\* subscriber grows by one, while the GitHub subscription stays.
C27_PlatformInIdentity ==
    [][\A u \in Users, r \in Repos :
          (/\ variant = "bot"
           /\ Tracks(u, r)
           /\ repo_types[<<u, r>>] = "github"
           /\ handle_message_repo(u, r, "gitlab"))
          => /\ outcome' # "rejected"
             /\ Len(repos'[u]) = Len(repos[u]) + 1]_vars

\* the list holds no repository twice
NoDuplicates(s) == \A i, j \in 1..Len(s) : i # j => s[i] # s[j]

\* C30: no list of a subscriber holds a repository twice, and an add for a
\* repository that is in the list of the subscriber is answered with a
\* rejection and changes neither the store, the file, the jobs nor the sink.
C30_NoDuplicateSubscription ==
    [][/\ \A u \in Users : NoDuplicates(repos'[u])
       /\ \A u \in Users, r \in Repos, p \in Platforms :
             (Tracks(u, r) /\ handle_message_repo(u, r, p))
             => /\ outcome' = "rejected"
                /\ UNCHANGED <<botvars, disk, jobvars, sinkvars>>
       /\ \A u \in Users, r \in Repos, resp \in SameRelease :
             (Tracks(u, r) /\ add_repo_text(u, r, resp))
             => /\ outcome' = "rejected"
                /\ UNCHANGED <<botvars, disk, jobvars, sinkvars>>]_vars

\* a subscriber who tracks the repository, with an interval of 6 hours chosen,
\* has just been refused a second add of it
C30_Witness ==
    /\ outcome = "rejected"
    /\ \E u \in Users, r \in Repos :
          /\ repos[u] = <<r>>
          /\ check_intervals[<<u, r>>] = TickHours
          /\ interval_repo[u] = r

C29_LiveSubscriptionKeepsItsPoll ==
    \A k \in Keys :
        (/\ variant = "telegram_bot"
         /\ Tracks(k[1], k[2])
         /\ k[1] \in user_tokens)
        => startup_jobs[k[2]] # None

\* C31: in bot.py every key of check_intervals and of repo_types is the key of
\* a repository that is in the list of its user, whatever adds, deletes and
\* interval buttons came before.
C31_KeysBelongToList ==
    variant = "bot"
        => \A k \in Keys :
              (check_intervals[k] # None \/ repo_types[k] # "none")
                  => Tracks(k[1], k[2])

\* C32: in bot.py a text message of a user who cancelled the open prompt, and
\* has opened none since, adds no subscription and stores no token.
C32_CancelledPromptTakesNoInput ==
    [][\A u \in Users, r \in Repos :
          (variant = "bot" /\ cancelled[u] /\ handle_message(u, r))
          => /\ repos' = repos
             /\ user_tokens' = user_tokens
             /\ check_intervals' = check_intervals]_vars

\* C33: in telegram_bot.py, once check_releases or check_now_user has
\* finished, the markers in the data file are the markers in memory.
C33_MarkersOnDisk ==
    variant = "telegram_bot" => disk = last_releases

\* C34: when import_data returns False the store in memory is what it was
\* before the call and the data file is not written.
C34_FailedImportChangesNothing ==
    [][outcome' = "import_failed" => Store' = Store /\ disk' = disk]_vars

C36_UntrackedJobRemovedWhenFired ==
    [][\A r \in Repos, resp \in SameRelease, ok \in [Users -> {TRUE}] :
          ((\A u \in Users : ~Tracks(u, r)) /\ check_releases(r, resp, ok))
          => startup_jobs'[r] = None]_vars

\* a pass of check_all_repos ends, by exhausting its loops or by the
\* exception handler
PassEnds == Loop /\ ~Sleeping /\ scan' = <<0, 0>> /\ outcome' # "restarted"

\* the release the hosting service reports is the marker of the data file
PersistedMarker(k, resp) ==
    resp.kind = "release" /\ resp.tag # None /\ resp.tag = disk[k]

\* C37: in bot.py, after a restart every subscription of the data file has
\* been polled when the first pass of check_all_repos ends (no pass ends
\* while such a subscription has no last-check timestamp), and the first
\* poll of a subscription sends nothing when the release is the marker that
\* was loaded from the file
C37_FirstPassPollsEverySubscription ==
    [][/\ PassEnds
          => \A k \in Keys :
                (Tracks(k[1], k[2]) /\ StoredCredential(k))
                    => last_check'[k] # Never
       /\ \A resp \in Releases, ok \in BOOLEAN :
             (/\ ScanVisit(resp, ok)
              /\ last_check[ScanKey] = Never
              /\ PersistedMarker(ScanKey, resp))
             => sent' = sent]_vars

\* the subscribers of repository r in telegram_bot.py
Subscribers(r) == {u \in Users : Tracks(u, r)}

\* C38: in telegram_bot.py the subscribers of a repository all store the
\* same interval_hours, and every poll job the scheduler holds for the
\* repository runs at that interval
C38_OneIntervalPerRepository ==
    variant = "telegram_bot"
        => \A r \in Repos :
              \A u \in Subscribers(r) :
                 /\ \A v \in Subscribers(r) :
                       check_intervals[<<u, r>>] = check_intervals[<<v, r>>]
                 /\ startup_jobs[r] # None
                       => startup_jobs[r] = check_intervals[<<u, r>>]
                 /\ aps_jobs[r] # None
                       => aps_jobs[r] = check_intervals[<<u, r>>]

\* C39: in telegram_bot.py no user id is in banned_users and in
\* special_users at once, and the owner's id is never in banned_users
C39_BannedNeverSpecial ==
    variant = "telegram_bot"
        => /\ \A id \in Ids :
                 ~(/\ \E i \in DOMAIN settings.banned_users :
                         settings.banned_users[i] = id
                   /\ \E i \in DOMAIN settings.special_users :
                         settings.special_users[i] = id)
           /\ \A i \in DOMAIN settings.banned_users :
                 settings.banned_users[i] # OWNER_ID

\* the owner has just banned a special user while another user is special:
\* the banned one is off special_users, the other one still on it
C39_Witness ==
    /\ variant = "telegram_bot"
    /\ outcome = "unlisted"
    /\ Len(settings.banned_users) = 1
    /\ Len(settings.special_users) = 2
    /\ settings.special_users[1] = OWNER_ID

====
